---- MODULE Spec2Model ----
(***************************************************************************)
(* A model of the core of mcp-fabric-api: the workspace write guard        *)
(* (WorkspaceGuard), the tool handlers that call it before a write, the    *)
(* long-running-operation poller (pollOperation) and getOperationResult,   *)
(* the create handlers' handling of an accepted operation (extractLro),    *)
(* the pagination helper (paginateAll), the token cache (TokenManager),    *)
(* the auth_switch_tenant tool with its rollback, and the HTTP client's    *)
(* handling of a response (FabricClient.handleResponse).                   *)
(*                                                                         *)
(* Strings the code inspects character by character (the environment       *)
(* value, the patterns, the display names, the regular expression source)  *)
(* are sequences of one-character strings.                                 *)
(***************************************************************************)
EXTENDS Integers, Sequences, FiniteSets, TLC

\* ------------------------------------------------------------------ bounds

\* Tool invocations that may be in flight at the same time.
MaxProcs == 2
\* Tool invocations started in one behaviour.
MaxCalls == 2
\* The longest list of states the status endpoint goes through.
MaxStatuses == 3
\* Status fetches one call of pollOperation may make.
MaxFetches == 4
\* The largest options.timeoutMs, in clock ticks.
MaxTimeout == 2
\* The largest options.pollIntervalMs, in clock ticks.
MaxInterval == 1
\* The longest a request takes, in clock ticks.
MaxLatency == 1
\* The most pages a listing has.
MaxPages == 3
\* Callers of getToken that may be in flight at the same time.
MaxCallers == 2
\* Calls of the TokenManager and minutes of its clock in one behaviour.
MaxTokenOps == 4
\* Calls of auth_switch_tenant in flight at once
MaxSwitches == 2

\* ----------------------------------------------------------------- strings

LowerLetters ==
  <<"a","b","c","d","e","f","g","h","i","j","k","l","m",
    "n","o","p","q","r","s","t","u","v","w","x","y","z">>
UpperLetters ==
  <<"A","B","C","D","E","F","G","H","I","J","K","L","M",
    "N","O","P","Q","R","S","T","U","V","W","X","Y","Z">>

\* The case folding of a regular expression with the "i" flag: toUpperCase.
Canonicalize(c) ==
  IF \E i \in DOMAIN LowerLetters : LowerLetters[i] = c
  THEN UpperLetters[CHOOSE i \in DOMAIN LowerLetters : LowerLetters[i] = c]
  ELSE c

\* The characters String.prototype.trim removes (those the model uses).
WhiteSpace == {" ", "\t", "\n", "\r"}
\* The characters "." does not match (no "s" flag).
LineTerminators == {"\n", "\r"}

RECURSIVE TrimLeft(_)
TrimLeft(s) ==
  IF s # <<>> /\ Head(s) \in WhiteSpace THEN TrimLeft(Tail(s)) ELSE s

RECURSIVE TrimRight(_)
TrimRight(s) ==
  IF s # <<>> /\ s[Len(s)] \in WhiteSpace
  THEN TrimRight(SubSeq(s, 1, Len(s) - 1)) ELSE s

Trim(s) == TrimRight(TrimLeft(s))

\* String.prototype.split with a one-character separator: always at least
\* one segment.
RECURSIVE SplitFrom(_, _, _)
SplitFrom(s, sep, cur) ==
  IF s = <<>> THEN <<cur>>
  ELSE IF Head(s) = sep THEN <<cur>> \o SplitFrom(Tail(s), sep, <<>>)
  ELSE SplitFrom(Tail(s), sep, Append(cur, Head(s)))

Split(s, sep) == SplitFrom(s, sep, <<>>)

RECURSIVE FilterNonEmpty(_)
FilterNonEmpty(ss) ==
  IF ss = <<>> THEN <<>>
  ELSE IF Len(Head(ss)) > 0 THEN <<Head(ss)>> \o FilterNonEmpty(Tail(ss))
  ELSE FilterNonEmpty(Tail(ss))

MapTrim(ss) == [i \in DOMAIN ss |-> Trim(ss[i])]

\* Array.prototype.join with a separator string.
RECURSIVE Join(_, _)
Join(ss, sep) ==
  IF ss = <<>> THEN <<>>
  ELSE IF Len(ss) = 1 THEN ss[1]
  ELSE ss[1] \o sep \o Join(Tail(ss), sep)

\* ------------------------------------------------------ regular expressions

\* The characters escapeRegExp's class [.*+?^${}()|[\]\\] lists.
RegExpSpecials ==
  {".", "*", "+", "?", "^", "$", "{", "}", "(", ")", "|", "[", "]", "\\"}

EscapeChar(c) == IF c \in RegExpSpecials THEN <<"\\", c>> ELSE <<c>>

\* A bug: "." is left out of the class.
RECURSIVE escapeRegExpNoDot(_)
escapeRegExpNoDot(str) ==
  IF str = <<>> THEN <<>>
  ELSE (IF Head(str) = "." THEN <<".">> ELSE EscapeChar(Head(str)))
         \o escapeRegExpNoDot(Tail(str))

RECURSIVE escapeRegExp(_)
escapeRegExp(str) ==
  IF str = <<>> THEN <<>>
  ELSE EscapeChar(Head(str)) \o escapeRegExp(Tail(str))

\* The regular expressions the guard can build, as tokens: an escaped or
\* plain character is a literal, ".*" is any run of characters other than
\* line terminators, a lone "." is one such character.
Lit(c) == [k |-> "lit", c |-> c]
DotStar == [k |-> "dotstar", c |-> "."]
AnyChar == [k |-> "any", c |-> "."]

RECURSIVE RegExpTokens(_)
RegExpTokens(src) ==
  IF src = <<>> THEN <<>>
  ELSE IF Head(src) = "\\" /\ Len(src) >= 2
    THEN <<Lit(src[2])>> \o RegExpTokens(SubSeq(src, 3, Len(src)))
  ELSE IF Head(src) = "." /\ Len(src) >= 2 /\ src[2] = "*"
    THEN <<DotStar>> \o RegExpTokens(SubSeq(src, 3, Len(src)))
  ELSE IF Head(src) = "."
    THEN <<AnyChar>> \o RegExpTokens(Tail(src))
  ELSE <<Lit(Head(src))>> \o RegExpTokens(Tail(src))

\* Does the token sequence, anchored at both ends, match all of str?
RECURSIVE TokensMatch(_, _)
TokensMatch(toks, str) ==
  IF toks = <<>> THEN str = <<>>
  ELSE IF Head(toks).k = "dotstar"
    THEN \/ TokensMatch(Tail(toks), str)
         \/ /\ str # <<>>
            /\ Head(str) \notin LineTerminators
            /\ TokensMatch(toks, Tail(str))
  ELSE IF Head(toks).k = "any"
    THEN /\ str # <<>>
         /\ Head(str) \notin LineTerminators
         /\ TokensMatch(Tail(toks), Tail(str))
  ELSE /\ str # <<>>
       /\ Canonicalize(Head(str)) = Canonicalize(Head(toks).c)
       /\ TokensMatch(Tail(toks), Tail(str))

\* new RegExp("^" + body + "$", "i").test(name)
RegExpTest(body, name) == TokensMatch(RegExpTokens(body), name)

EscapeAll(segs) == [i \in DOMAIN segs |-> escapeRegExp(segs[i])]

matchesPattern(name, pattern) ==
  RegExpTest(Join(EscapeAll(Split(pattern, "*")), <<".", "*">>), name)

\* ------------------------------------------------------------ WorkspaceGuard

\* Values of the environment variable WRITABLE_WORKSPACES at start-up.
EnvUnset == [set |-> FALSE, value |-> <<>>]
EnvOf(v) == [set |-> TRUE, value |-> v]
EnvChoices ==
  { EnvUnset,
    EnvOf(<<>>),
    EnvOf(<<" ", ",", " ">>),
    EnvOf(<<"*">>),
    EnvOf(<<"*","-","D","e","v", ",", "S","a","n","d","b","o","x","*">>),
    EnvOf(<<"*","-","D","e","v", ",", " ", "*", " ">>),
    EnvOf(<<"S","*","-","*","v">>),
    EnvOf(<<"S","a","l","e","s",".","D","e","v">>) }

\* Workspace identifiers and the display names the service may report.
Ids == {"w1", "w2"}
Names ==
  << <<"S","a","l","e","s","-","D","e","v">>,
     <<"s","a","l","e","s","-","d","e","v">>,
     <<"S","a","n","d","b","o","x","-","4","2">>,
     <<"S","a","l","e","s","-","P","r","o","d">>,
     <<"S","a","l","e","s","\n","-","D","e","v">> >>
NameChoices ==
  { [i \in Ids |-> IF i = "w1" THEN Names[n] ELSE Names[(n % Len(Names)) + 1]]
      : n \in DOMAIN Names }

\* The constructor: trim, split on commas, trim each entry, drop empty ones.
ParsePatterns(e) ==
  IF ~e.set \/ Trim(e.value) = <<>> THEN <<>>
  ELSE FilterNonEmpty(MapTrim(Split(Trim(e.value), ",")))

\* A bug: the sentinel counts only when it is the whole list.
AllowAllAlone(pats) == pats = << <<"*">> >>

AllowAll(pats) == \E i \in DOMAIN pats : pats[i] = <<"*">>

Procs == 1..MaxProcs

\* The tools modelled, the HTTP method of their write and whether their
\* handler calls assertWorkspaceAllowed first.
Tools == {"lakehouse_delete", "graphql_api_create", "workspace_create"}
WriteMethod(t) == IF t = "lakehouse_delete" THEN "DELETE" ELSE "POST"

\* A bug: a handler that deletes without asking the guard.
IsGuardedNoDelete(t) == t = "graphql_api_create"

IsGuarded(t) == t \in {"lakehouse_delete", "graphql_api_create"}

\* workspace_create takes no workspace identifier.
ToolArgs(t) == IF t = "workspace_create" THEN {"none"} ELSE Ids

VARIABLES
  patterns,     \* WorkspaceGuard.patterns
  allowAll,     \* WorkspaceGuard.allowAll
  nameCache,    \* WorkspaceGuard.nameCache: a function on the cached ids
  serverName,   \* the display name the service reports for each workspace
  reads,        \* GET /workspaces/{id} requests the guard has issued, per id
  writes,       \* the write requests issued: records of tool, method, id
  calls,        \* tool invocations started
  pc,           \* where each invocation stands
  tool,         \* the tool each invocation runs
  wid,          \* its workspaceId argument
  guard,        \* what assertWorkspaceAllowed did in this invocation
  wrote,        \* has this invocation sent its write request?
  result        \* what the handler returned

guardVars == <<patterns, allowAll, nameCache, serverName, reads, writes,
               calls, pc, tool, wid, guard, wrote, result>>

NoText == <<>>
Ok == [kind |-> "ok", name |-> NoText, listed |-> NoText]
Err(kind) == [kind |-> kind, name |-> NoText, listed |-> NoText]
NotConfigured == Err("GuardNotConfigured")
\* "Workspace <name> is not in the writable workspaces list. Allowed
\* patterns: <patterns.join(", ")>"
Denied(name) ==
  [kind |-> "GuardDenied", name |-> name,
   listed |-> Join(patterns, <<",", " ">>)]

GuardInit ==
  /\ \E e \in EnvChoices :
       /\ patterns = ParsePatterns(e)
       /\ allowAll = AllowAll(ParsePatterns(e))
  /\ nameCache = <<>>
  /\ serverName \in NameChoices
  /\ reads = [i \in Ids |-> 0]
  /\ writes = {}
  /\ calls = 0
  /\ pc = [p \in Procs |-> "idle"]
  /\ tool = [p \in Procs |-> "workspace_create"]
  /\ wid = [p \in Procs |-> "none"]
  /\ guard = [p \in Procs |-> "none"]
  /\ wrote = [p \in Procs |-> FALSE]
  /\ result = [p \in Procs |-> Ok]

\* nameCache.get(id) followed by the test !name
CacheMiss(id) == id \notin DOMAIN nameCache \/ nameCache[id] = <<>>

\* The loop over the patterns: does any pattern match the name?
AnyPatternMatches(name) ==
  \E i \in DOMAIN patterns : matchesPattern(name, patterns[i])

\* A bug: the cache is consulted before the list is found empty.
GuardEntryCacheFirst(id) ==
  IF allowAll THEN "allow"
  ELSE IF CacheMiss(id) THEN "miss"
  ELSE IF Len(patterns) = 0 THEN "notConfigured"
  ELSE "hit"

\* assertWorkspaceAllowed up to its first await.
GuardEntry(id) ==
  IF allowAll THEN "allow"
  ELSE IF Len(patterns) = 0 THEN "notConfigured"
  ELSE IF CacheMiss(id) THEN "miss"
  ELSE "hit"

\* ------------------------------------------------- the poller's variables

VARIABLES
  statusSeq,    \* the states the status endpoint reports, fetch by fetch
  timeoutMs,    \* options.timeoutMs
  pollInterval, \* options.pollIntervalMs
  now,          \* Date.now()
  start,        \* pollOperation's start
  ppc,          \* where the caller of pollOperation stands
  fetches,      \* GET /operations/{id} requests issued
  fetched,      \* the states fetched so far, in order
  pout,         \* how pollOperation ended
  resultGets,   \* GET /operations/{id}/result requests issued
  rres,         \* the answer to the last of them
  rout          \* what getOperationResult returned

pollVars == <<statusSeq, timeoutMs, pollInterval, now, start, ppc, fetches,
              fetched, pout, resultGets, rres, rout>>

\* -------------------------------- a handler after its write: the variables

VARIABLES
  atool,        \* the tool whose handler runs
  apc,          \* where the handler stands
  aresp,        \* the response to its POST
  alro,         \* response.lro, as extractLro computed it
  acalls,       \* the calls the handler made to lro.ts, in order
  astate,       \* what pollOperation returned
  areturn       \* what the handler returned

asyncVars == <<atool, apc, aresp, alro, acalls, astate, areturn>>

NoHeader == [present |-> FALSE, value |-> <<>>]
Header(v) == [present |-> TRUE, value |-> v]
NoResponse == [status |-> 0, opId |-> NoHeader, location |-> NoHeader]
NoLro == [lro |-> FALSE, operationId |-> <<>>]
NoReturn == [kind |-> "none", operation |-> "none", item |-> "none"]

AsyncIdle ==
  /\ atool = "graphql_api_create"
  /\ apc = "idle"
  /\ aresp = NoResponse
  /\ alro = NoLro
  /\ acalls = <<>>
  /\ astate = "none"
  /\ areturn = NoReturn

\* ------------------------------------------------ paginateAll: the variables

VARIABLES
  listing,      \* the listing the service holds: the path asked and its pages
  currentPath,  \* paginateAll's currentPath
  all,          \* paginateAll's accumulator
  pgFetches,    \* the requests sent, in order: the client method and the URL
  pgDelivered,  \* the response bodies received, in order
  pgpc,         \* where the caller of paginateAll stands
  pgout,        \* how paginateAll ended
  pgfault       \* the failure the environment injected, if any

pageVars == <<listing, currentPath, all, pgFetches, pgDelivered, pgpc, pgout,
              pgfault>>

\* A value that may be null or undefined: null, or a string or array.
Null == [null |-> TRUE, value |-> <<>>]
Str(v) == [null |-> FALSE, value |-> v]
NotEnded == [kind |-> "none", items |-> <<>>, error |-> "none"]

PageIdle ==
  /\ listing = [path |-> <<>>, pages |-> <<>>]
  /\ currentPath = Null
  /\ all = <<>>
  /\ pgFetches = <<>>
  /\ pgDelivered = <<>>
  /\ pgpc = "idle"
  /\ pgout = NotEnded
  /\ pgfault = "none"

\* ----------------------------------------------- TokenManager: the variables

VARIABLES
  currentTenantId, \* TokenManager.currentTenantId
  credential,      \* TokenManager.credential: the tenant it was built for
  cache,           \* TokenManager.cache: scope -> AccessToken
  tnow,            \* Date.now(), in milliseconds
  issued,          \* calls of credential.getToken made so far
  tops,            \* calls of the TokenManager made and minutes passed so far
  tlastOp,         \* the last of them, its argument and the place it took
  tpc,             \* where each call of getToken in flight stands
  tscope,          \* the scope it asks for
  tcred,           \* the credential its acquisition runs on
  tno,             \* the number of its acquisition
  tret,            \* what the last call of getToken to end returned
  tlast,           \* per scope, the call started last and what it returned
  tpending         \* scopes cached at the last switchTenant, not asked for since

tokenVars == <<currentTenantId, credential, cache, tnow, issued, tops, tlastOp,
               tpc, tscope, tcred, tno, tret, tlast, tpending>>

\* The places for calls of getToken in flight.
TProcs == 1..MaxCallers
Scopes == {"fabric", "powerbi"}
NoTenant == "undefined"
Tenants == {"tenant-A", "tenant-B"}
NoToken == [token |-> 0, expiresOnTimestamp |-> 0, credential |-> NoTenant]
NotReturned == [kind |-> "none", token |-> NoToken]
NoLast == [by |-> 0, acquired |-> FALSE, ret |-> NoToken]

TokenIdle ==
  /\ currentTenantId = NoTenant
  /\ credential = NoTenant
  /\ cache = [s \in Scopes |-> NoToken]
  /\ tnow = 0
  /\ issued = 0
  /\ tops = 0
  /\ tlastOp = [op |-> "constructor", arg |-> NoTenant, by |-> 0]
  /\ tpc = [p \in TProcs |-> "idle"]
  /\ tscope = [p \in TProcs |-> "none"]
  /\ tcred = [p \in TProcs |-> NoTenant]
  /\ tno = [p \in TProcs |-> 0]
  /\ tret = NotReturned
  /\ tlast = [s \in Scopes |-> NoLast]
  /\ tpending = {}

\* ------------------------------------------ auth_switch_tenant: the variables

VARIABLES
  spc,        \* where each call of auth_switch_tenant in flight stands
  starget,    \* its tenantId argument
  sprev,      \* its previousTenantId
  sno,        \* the number of its verification token request
  sover,      \* whether another call of the tool ran while it was in flight
  slast,      \* how the last call of the tool to end ended, whether it
              \* asked for another tenant and whether it was overlapped
  sverified   \* the tenant of the last switch whose verification succeeded

switchVars == <<spc, starget, sprev, sno, sover, slast, sverified>>

\* The places for calls of auth_switch_tenant in flight.
SProcs == 1..MaxSwitches
NoSwitch == [kind |-> "none", moved |-> FALSE, over |-> FALSE]

SwitchIdle ==
  /\ spc = [p \in SProcs |-> "idle"]
  /\ starget = [p \in SProcs |-> NoTenant]
  /\ sprev = [p \in SProcs |-> NoTenant]
  /\ sno = [p \in SProcs |-> 0]
  /\ sover = [p \in SProcs |-> FALSE]
  /\ slast = NoSwitch
  /\ sverified = NoTenant

\* ----------------------------------------------- FabricClient: the variables

VARIABLES
  hpc,      \* where the call of the client stands
  hmethod,  \* the method called: get, post, patch, delete or getFullUrl
  hresp,    \* the response fetch resolved with
  hout      \* how the call ended

httpVars == <<hpc, hmethod, hresp, hout>>

NoHttpResponse ==
  [status |-> 0, opId |-> NoHeader, location |-> NoHeader,
   contentLength |-> NoHeader, contentType |-> NoHeader,
   retryAfter |-> NoHeader, body |-> "none"]
NoHttpError ==
  [type |-> "none", message |-> "none", statusCode |-> 0, errorCode |-> "none"]
NotCalled ==
  [via |-> "none", data |-> "none", lro |-> NoLro, status |-> 0,
   error |-> NoHttpError]

HttpIdle ==
  /\ hpc = "idle"
  /\ hmethod = "none"
  /\ hresp = NoHttpResponse
  /\ hout = NotCalled

vars == <<guardVars, pollVars, asyncVars, pageVars, tokenVars, switchVars,
          httpVars>>

\* ---------------------------------------------------------- tool handlers

\* What fabricClient.get can do once the request is sent: an answer, or a
\* FabricApiError (the rate limit error is one).
ReadOutcomes == {"ok", "ApiError"}
\* What fabricClient.post / delete can do once the request is sent: a plain
\* 2xx, a 202 carrying an operation id, or a FabricApiError.
WriteOutcomes == {"ok", "lro", "ApiError"}
\* How pollOperation can end, seen from a handler.
PollOutcomes ==
  {"Succeeded", "Cancelled", "OperationFailed", "OperationTimeout"}

Finish(p, g, r) ==
  /\ pc' = [pc EXCEPT ![p] = "done"]
  /\ guard' = [guard EXCEPT ![p] = g]
  /\ result' = [result EXCEPT ![p] = r]

Proceed(p, g) ==
  /\ pc' = [pc EXCEPT ![p] = "write"]
  /\ guard' = [guard EXCEPT ![p] = g]
  /\ result' = [result EXCEPT ![p] = Ok]

\* The end of assertWorkspaceAllowed once the name is known.
CheckName(p, name) ==
  IF AnyPatternMatches(name)
  THEN Proceed(p, "allowed")
  ELSE Finish(p, "GuardDenied", Denied(name))

\* A tool is called: its handler runs up to its first await.  A guarded
\* handler runs assertWorkspaceAllowed; on a cache miss the guard asks for a
\* token and sends GET /workspaces/{id}.  Invocations are interchangeable, so
\* a fresh one takes the lowest free place.
ToolInvoke(p) ==
  /\ pc[p] \in {"idle", "done"}
  /\ \A q \in Procs : q < p => pc[q] # "idle"
  /\ calls < MaxCalls
  /\ calls' = calls + 1
  /\ \E t \in Tools : \E w \in ToolArgs(t) : \E tokenOk \in BOOLEAN :
       /\ tool' = [tool EXCEPT ![p] = t]
       /\ wid' = [wid EXCEPT ![p] = w]
       /\ wrote' = [wrote EXCEPT ![p] = FALSE]
       /\ IF ~IsGuarded(t)
          THEN Proceed(p, "none") /\ UNCHANGED reads
          ELSE CASE GuardEntry(w) = "allow" ->
                      Proceed(p, "allowed") /\ UNCHANGED reads
                 [] GuardEntry(w) = "notConfigured" ->
                      Finish(p, "GuardNotConfigured", NotConfigured)
                        /\ UNCHANGED reads
                 [] GuardEntry(w) = "hit" ->
                      CheckName(p, nameCache[w]) /\ UNCHANGED reads
                 [] GuardEntry(w) = "miss" ->
                      IF tokenOk
                      THEN /\ reads' = [reads EXCEPT ![w] = @ + 1]
                           /\ pc' = [pc EXCEPT ![p] = "resolving"]
                           /\ guard' = [guard EXCEPT ![p] = "resolving"]
                           /\ result' = [result EXCEPT ![p] = Ok]
                      ELSE Finish(p, "failed", Err("AuthenticationFailed"))
                             /\ UNCHANGED reads
  /\ UNCHANGED <<patterns, allowAll, nameCache, serverName, writes>>
  /\ UNCHANGED <<pollVars, asyncVars, pageVars, tokenVars,
                 switchVars, httpVars>>

\* The response to GET /workspaces/{id} arrives: the name is cached and
\* tested, or the error is thrown and the handler reports it.
GuardReadReturn(p) ==
  /\ pc[p] = "resolving"
  /\ \E out \in ReadOutcomes :
       IF out = "ok"
       THEN /\ nameCache' =
                 [i \in DOMAIN nameCache \cup {wid[p]} |->
                    IF i = wid[p] THEN serverName[wid[p]] ELSE nameCache[i]]
            /\ CheckName(p, serverName[wid[p]])
       ELSE /\ Finish(p, "failed", Err(out))
            /\ UNCHANGED nameCache
  /\ UNCHANGED <<patterns, allowAll, serverName, reads, writes, calls, tool, wid,
                 wrote>>
  /\ UNCHANGED <<pollVars, asyncVars, pageVars, tokenVars,
                 switchVars, httpVars>>

\* The handler calls fabricClient.post / patch / delete: a token is asked
\* for and the write request is sent.
WriteIssue(p) ==
  /\ pc[p] = "write"
  /\ \E tokenOk \in BOOLEAN :
       IF tokenOk
       THEN /\ writes' = writes \cup
                 {[tool |-> tool[p], method |-> WriteMethod(tool[p]),
                   wid |-> wid[p]]}
            /\ wrote' = [wrote EXCEPT ![p] = TRUE]
            /\ pc' = [pc EXCEPT ![p] = "writing"]
            /\ UNCHANGED <<guard, result>>
       ELSE /\ Finish(p, guard[p], Err("AuthenticationFailed"))
            /\ UNCHANGED <<writes, wrote>>
  /\ UNCHANGED <<patterns, allowAll, nameCache, serverName, reads, calls, tool, wid>>
  /\ UNCHANGED <<pollVars, asyncVars, pageVars, tokenVars,
                 switchVars, httpVars>>

\* The response to the write arrives.  Only graphql_api_create looks at
\* response.lro here.
WriteReturn(p) ==
  /\ pc[p] = "writing"
  /\ \E out \in WriteOutcomes :
       IF out = "ApiError"
       THEN Finish(p, guard[p], Err(out))
       ELSE IF out = "lro" /\ tool[p] = "graphql_api_create"
       THEN /\ pc' = [pc EXCEPT ![p] = "polling"]
            /\ UNCHANGED <<guard, result>>
       ELSE Finish(p, guard[p], Ok)
  /\ UNCHANGED <<patterns, allowAll, nameCache, serverName, reads, writes,
                 calls, tool, wid, wrote>>
  /\ UNCHANGED <<pollVars, asyncVars, pageVars, tokenVars,
                 switchVars, httpVars>>

\* pollOperation ends, seen from the handler: it returns the state, or
\* throws a FabricApiError that the handler reports.
ToolPoll(p) ==
  /\ pc[p] = "polling"
  /\ \E out \in PollOutcomes :
       IF out \in {"Succeeded", "Cancelled"}
       THEN /\ pc' = [pc EXCEPT ![p] = "result"]
            /\ UNCHANGED <<guard, result>>
       ELSE Finish(p, guard[p], Err("ApiError"))
  /\ UNCHANGED <<patterns, allowAll, nameCache, serverName, reads, writes,
                 calls, tool, wid, wrote>>
  /\ UNCHANGED <<pollVars, asyncVars, pageVars, tokenVars,
                 switchVars, httpVars>>

\* getOperationResult ends (it never throws) and the handler returns.
ToolResult(p) ==
  /\ pc[p] = "result"
  /\ Finish(p, guard[p], Ok)
  /\ UNCHANGED <<patterns, allowAll, nameCache, serverName, reads, writes,
                 calls, tool, wid, wrote>>
  /\ UNCHANGED <<pollVars, asyncVars, pageVars, tokenVars,
                 switchVars, httpVars>>

PollIdle ==
  /\ statusSeq = <<>>
  /\ timeoutMs = 0
  /\ pollInterval = 0
  /\ now = 0
  /\ start = 0
  /\ ppc = "idle"
  /\ fetches = 0
  /\ fetched = <<>>
  /\ pout = [via |-> "none"]
  /\ resultGets = 0
  /\ rres = [ok |-> FALSE]
  /\ rout = [via |-> "none"]

GuardNext ==
  \E p \in Procs :
    \/ ToolInvoke(p)
    \/ GuardReadReturn(p)
    \/ WriteIssue(p)
    \/ WriteReturn(p)
    \/ ToolPoll(p)
    \/ ToolResult(p)

InitGuard == GuardInit /\ PollIdle /\ AsyncIdle /\ PageIdle /\ TokenIdle
  /\ SwitchIdle /\ HttpIdle

SpecGuard == InitGuard /\ [][GuardNext]_vars

\* ------------------------------------------------------------ pollOperation

Statuses ==
  {"NotStarted", "Running", "Succeeded", "Failed", "Cancelled", "Undefined"}

\* OperationState.error as the provider may report it; NoError is its absence.
Undefined == "<undefined>"
NoError == [has |-> FALSE, errorCode |-> Undefined, message |-> Undefined]
TimedOutText == "Operation op timed out"
ProviderErrors ==
  { [has |-> TRUE, errorCode |-> "ItemNameAlreadyInUse",
     message |-> "name in use"],
    [has |-> TRUE, errorCode |-> "OperationTimeout",
     message |-> TimedOutText] }

\* The operation states the status endpoint may answer with.
OperationStates ==
  { [status |-> st, error |-> NoError] : st \in Statuses }
    \cup { [status |-> "Failed", error |-> e] : e \in ProviderErrors }

StatusSeqs ==
  UNION { [1..n -> OperationStates] : n \in 1..MaxStatuses }

\* new FabricApiError(message, statusCode, errorCode)
FabricApiError(message, statusCode, errorCode) ==
  [type |-> "FabricApiError", message |-> message,
   statusCode |-> statusCode, errorCode |-> errorCode]
\* What a failing fabricClient.get throws: an API error, the rate limit
\* error, or the plain Error of a failed token request.
GetErrors ==
  { FabricApiError("not found", 404, "EntityNotFound"),
    FabricApiError("server error", 500, Undefined),
    FabricApiError("Rate limited", 429, "TooManyRequests"),
    [type |-> "Error", message |-> "Azure authentication failed",
     statusCode |-> 0, errorCode |-> Undefined] }

\* A bug: the provider's error code is not passed on.
FailedErrorNoCode(e) ==
  FabricApiError(IF e.has THEN e.message ELSE "Operation failed", 500,
                 Undefined)

\* state.error?.message ?? "Operation failed", 500, state.error?.errorCode
FailedError(e) ==
  FabricApiError(IF e.has THEN e.message ELSE "Operation failed", 500,
                 IF e.has THEN e.errorCode ELSE Undefined)

\* A bug: the timeout is reported with the status code of a failure.
TimeoutErrorAs500 == FabricApiError(TimedOutText, 500, "OperationTimeout")

TimeoutError == FabricApiError(TimedOutText, 408, "OperationTimeout")

\* A bug: Cancelled is not taken for a final status.
IsTerminalNoCancelled(st) == st \in {"Succeeded", "Failed"}

\* A bug: Undefined is taken for a final status.
IsTerminalWithUndefined(st) ==
  st \in {"Succeeded", "Failed", "Cancelled", "Undefined"}

\* status === "Succeeded" || status === "Failed" || status === "Cancelled"
IsTerminal(st) == st \in {"Succeeded", "Failed", "Cancelled"}

\* A bug: the timeout is checked before the fetched status is looked at.
AfterFetchTimeoutFirst(state, elapsed, timeout) ==
  IF elapsed > timeout
    THEN [via |-> "thrown", why |-> "timeout", state |-> state,
          error |-> TimeoutError]
  ELSE IF IsTerminal(state.status)
    THEN IF state.status = "Failed"
         THEN [via |-> "thrown", why |-> "failed", state |-> state,
               error |-> FailedError(state.error)]
         ELSE [via |-> "returned", why |-> "terminal", state |-> state,
               error |-> NoError]
  ELSE [via |-> "none", why |-> "sleep", state |-> state, error |-> NoError]

\* A bug: the loop has no timeout.
AfterFetchNoTimeout(state, elapsed, timeout) ==
  IF IsTerminal(state.status)
    THEN IF state.status = "Failed"
         THEN [via |-> "thrown", why |-> "failed", state |-> state,
               error |-> FailedError(state.error)]
         ELSE [via |-> "returned", why |-> "terminal", state |-> state,
               error |-> NoError]
  ELSE [via |-> "none", why |-> "sleep", state |-> state, error |-> NoError]

\* The body of the loop after a status was fetched: return the state, throw,
\* or (via "none") go to sleep.
AfterFetch(state, elapsed, timeout) ==
  IF IsTerminal(state.status)
    THEN IF state.status = "Failed"
         THEN [via |-> "thrown", why |-> "failed", state |-> state,
               error |-> FailedError(state.error)]
         ELSE [via |-> "returned", why |-> "terminal", state |-> state,
               error |-> NoError]
  ELSE IF elapsed > timeout
    THEN [via |-> "thrown", why |-> "timeout", state |-> state,
          error |-> TimeoutError]
  ELSE [via |-> "none", why |-> "sleep", state |-> state, error |-> NoError]

NotPolled ==
  [via |-> "none", why |-> "none",
   state |-> [status |-> "NotStarted", error |-> NoError], error |-> NoError]

\* The k-th answer of the status endpoint; its last state stays.
StatusAt(k) == statusSeq[IF k <= Len(statusSeq) THEN k ELSE Len(statusSeq)]

PollInit ==
  /\ statusSeq \in StatusSeqs
  /\ timeoutMs \in {0, MaxTimeout}
  /\ pollInterval \in 0..MaxInterval
  /\ now = 0
  /\ start = 0
  /\ ppc = "idle"
  /\ fetches = 0
  /\ fetched = <<>>
  /\ pout = NotPolled
  /\ resultGets = 0
  /\ rres = [ok |-> FALSE, body |-> Undefined, error |-> NoError]
  /\ rout = [via |-> "none", value |-> Undefined, error |-> NoError]

\* pollOperation is called: the start time is taken and the first status
\* request is sent.
PollStart ==
  /\ ppc = "idle"
  /\ start' = now
  /\ fetches' = 1
  /\ ppc' = "fetching"
  /\ UNCHANGED <<statusSeq, timeoutMs, pollInterval, now, fetched, pout,
                 resultGets, rres, rout>>
  /\ UNCHANGED <<guardVars, asyncVars, pageVars, tokenVars,
                 switchVars, httpVars>>

\* The status request ends after some time: with a state, which the loop
\* body acts on, or with an error, which pollOperation lets through.
PollResponse ==
  /\ ppc = "fetching"
  /\ \E lat \in 0..MaxLatency :
       /\ now' = now + lat
       /\ \/ /\ fetched' = Append(fetched, StatusAt(fetches))
             /\ pout' = AfterFetch(StatusAt(fetches), now' - start, timeoutMs)
             /\ ppc' = IF pout'.via = "none" THEN "sleeping" ELSE "polled"
          \/ \E e \in GetErrors :
               /\ pout' = [via |-> "thrown", why |-> "fetch",
                           state |-> NotPolled.state, error |-> e]
               /\ ppc' = "polled"
               /\ UNCHANGED fetched
  /\ UNCHANGED <<statusSeq, timeoutMs, pollInterval, start, fetches,
                 resultGets, rres, rout>>
  /\ UNCHANGED <<guardVars, asyncVars, pageVars, tokenVars,
                 switchVars, httpVars>>

\* The sleep ends and the next status request is sent.
PollWake ==
  /\ ppc = "sleeping"
  /\ fetches < MaxFetches
  /\ now' = now + pollInterval
  /\ fetches' = fetches + 1
  /\ ppc' = "fetching"
  /\ UNCHANGED <<statusSeq, timeoutMs, pollInterval, start, fetched, pout,
                 resultGets, rres, rout>>
  /\ UNCHANGED <<guardVars, asyncVars, pageVars, tokenVars,
                 switchVars, httpVars>>

\* ------------------------------------------------------ getOperationResult

\* What GET /operations/{id}/result can do: a body, an empty 2xx answer, or
\* an error.
ResultResponses ==
  { [ok |-> TRUE, body |-> "item", error |-> NoError],
    [ok |-> TRUE, body |-> Undefined, error |-> NoError] }
    \cup { [ok |-> FALSE, body |-> Undefined, error |-> e] : e \in GetErrors }

\* A bug: only "not found" is swallowed.
getOperationResultOnly404(resp) ==
  IF resp.ok
  THEN [via |-> "returned", value |-> resp.body, error |-> NoError]
  ELSE IF resp.error.statusCode = 404
  THEN [via |-> "returned", value |-> Undefined, error |-> NoError]
  ELSE [via |-> "thrown", value |-> Undefined, error |-> resp.error]

\* try { return (await client.get(...)).data } catch { return undefined }
getOperationResult(resp) ==
  IF resp.ok
  THEN [via |-> "returned", value |-> resp.body, error |-> NoError]
  ELSE [via |-> "returned", value |-> Undefined, error |-> NoError]

\* A handler whose poll returned calls getOperationResult: the result
\* request is sent.
ResultFetch ==
  /\ ppc = "polled"
  /\ pout.via = "returned"
  /\ resultGets' = resultGets + 1
  /\ ppc' = "getting"
  /\ UNCHANGED <<statusSeq, timeoutMs, pollInterval, now, start, fetches,
                 fetched, pout, rres, rout>>
  /\ UNCHANGED <<guardVars, asyncVars, pageVars, tokenVars,
                 switchVars, httpVars>>

\* The result request ends and getOperationResult returns.
ResultReturn ==
  /\ ppc = "getting"
  /\ \E resp \in ResultResponses :
       /\ rres' = resp
       /\ rout' = getOperationResult(resp)
  /\ ppc' = "done"
  /\ UNCHANGED <<statusSeq, timeoutMs, pollInterval, now, start, fetches,
                 fetched, pout, resultGets>>
  /\ UNCHANGED <<guardVars, asyncVars, pageVars, tokenVars,
                 switchVars, httpVars>>

GuardIdle ==
  /\ patterns = <<>>
  /\ allowAll = FALSE
  /\ nameCache = <<>>
  /\ serverName = [i \in Ids |-> Names[1]]
  /\ reads = [i \in Ids |-> 0]
  /\ writes = {}
  /\ calls = 0
  /\ pc = [p \in Procs |-> "idle"]
  /\ tool = [p \in Procs |-> "workspace_create"]
  /\ wid = [p \in Procs |-> "none"]
  /\ guard = [p \in Procs |-> "none"]
  /\ wrote = [p \in Procs |-> FALSE]
  /\ result = [p \in Procs |-> Ok]

InitPoll == GuardIdle /\ PollInit /\ AsyncIdle /\ PageIdle /\ TokenIdle
  /\ SwitchIdle /\ HttpIdle

PollNext ==
  \/ PollStart
  \/ PollResponse
  \/ PollWake
  \/ ResultFetch
  \/ ResultReturn

SpecPoll == InitPoll /\ [][PollNext]_vars

\* Every status request is answered and every sleep ends: fetch resolves or
\* rejects, and setTimeout fires.
SpecPollFair == SpecPoll /\ WF_vars(PollResponse) /\ WF_vars(PollWake)

\* ------------------------------------- a handler after its write (LRO shape)

\* The handlers modelled: both post, then look at response.lro.
AsyncTools == {"graphql_api_create", "lakehouse_create"}

\* Does the handler call getOperationResult once pollOperation has returned?
FetchesResult(t) == t = "graphql_api_create"

\* "operations/"
OperationsSlash == <<"o","p","e","r","a","t","i","o","n","s","/">>

\* The run of characters other than "/" and "?" at the head of s: [^/?]+
RECURSIVE IdRun(_)
IdRun(s) ==
  IF s = <<>> \/ Head(s) \in {"/", "?"} THEN <<>>
  ELSE <<Head(s)>> \o IdRun(Tail(s))

\* location.match(/operations\/([^/?]+)/)?.[1]: the leftmost match, or <<>>
\* for none.
RECURSIVE MatchOperationId(_)
MatchOperationId(loc) ==
  IF Len(loc) < Len(OperationsSlash) THEN <<>>
  ELSE IF /\ SubSeq(loc, 1, Len(OperationsSlash)) = OperationsSlash
          /\ IdRun(SubSeq(loc, Len(OperationsSlash) + 1, Len(loc))) # <<>>
    THEN IdRun(SubSeq(loc, Len(OperationsSlash) + 1, Len(loc)))
  ELSE MatchOperationId(Tail(loc))

\* headers.get("x-ms-operation-id") ?? headers.get("location")?.match(..)?.[1]
OperationIdOf(resp) ==
  IF resp.opId.present THEN resp.opId.value
  ELSE IF resp.location.present THEN MatchOperationId(resp.location.value)
  ELSE <<>>

extractLro(resp) ==
  IF resp.status # 202 THEN NoLro
  ELSE IF OperationIdOf(resp) = <<>> THEN NoLro
  ELSE [lro |-> TRUE, operationId |-> OperationIdOf(resp)]

\* The answers to the POST that handleResponse does not turn into an error.
WriteStatuses == {200, 201, 202}
OperationIdHeaders == {NoHeader, Header(<<"o","p","1">>)}
LocationHeaders ==
  { NoHeader,
    Header(<<"/","v","1","/","o","p","e","r","a","t","i","o","n","s","/","o","p","2">>),
    Header(<<"/","v","1","/","o","p","e","r","a","t","i","o","n","s","/","o","p","2","/","r","e","s","u","l","t">>),
    Header(<<"/","v","1","/","o","p","e","r","a","t","i","o","n","s","/">>),
    Header(<<"/","v","1","/","i","t","e","m","s","/","i","1">>) }
WriteResponses ==
  { [status |-> st, opId |-> o, location |-> l] :
      st \in WriteStatuses, o \in OperationIdHeaders, l \in LocationHeaders }

Immediate == [kind |-> "immediate", operation |-> "none", item |-> "data"]
Thrown == [kind |-> "error", operation |-> "none", item |-> "none"]
OperationReturn(state, item) == [kind |-> "operation", operation |-> state, item |-> item]

\* The handler is called, the guard lets it through and the POST is sent.
AsyncInvoke ==
  /\ apc = "idle"
  /\ \E t \in AsyncTools : atool' = t
  /\ apc' = "posting"
  /\ UNCHANGED <<aresp, alro, acalls, astate, areturn>>
  /\ UNCHANGED <<guardVars, pollVars, pageVars, tokenVars,
                 switchVars, httpVars>>

\* fabricClient.post throws: the handler returns formatToolError(error).
AsyncPostFails ==
  /\ apc = "posting"
  /\ apc' = "done"
  /\ areturn' = Thrown
  /\ UNCHANGED <<atool, aresp, alro, acalls, astate>>
  /\ UNCHANGED <<guardVars, pollVars, pageVars, tokenVars,
                 switchVars, httpVars>>

\* fabricClient.post returns: with response.lro the handler calls
\* pollOperation, without it the handler returns response.data.
AsyncResponse ==
  /\ apc = "posting"
  /\ \E r \in WriteResponses :
       /\ aresp' = r
       /\ alro' = extractLro(r)
       /\ IF extractLro(r).lro
          THEN /\ acalls' = Append(acalls, "pollOperation")
               /\ apc' = "polling"
               /\ UNCHANGED areturn
          ELSE /\ apc' = "done"
               /\ areturn' = Immediate
               /\ UNCHANGED acalls
  /\ UNCHANGED <<atool, astate>>
  /\ UNCHANGED <<guardVars, pollVars, pageVars, tokenVars,
                 switchVars, httpVars>>

\* pollOperation ends: it returns a state (Succeeded or Cancelled) or
\* throws.  After a return graphql_api_create calls getOperationResult and
\* lakehouse_create returns the state with response.data.
AsyncPollReturn ==
  /\ apc = "polling"
  /\ \E o \in PollOutcomes :
       IF o \in {"Succeeded", "Cancelled"}
       THEN /\ astate' = o
            /\ IF FetchesResult(atool)
               THEN /\ acalls' = Append(acalls, "getOperationResult")
                    /\ apc' = "result"
                    /\ UNCHANGED areturn
               ELSE /\ apc' = "done"
                    /\ areturn' = OperationReturn(o, "data")
                    /\ UNCHANGED acalls
       ELSE /\ apc' = "done"
            /\ areturn' = Thrown
            /\ UNCHANGED <<acalls, astate>>
  /\ UNCHANGED <<atool, aresp, alro>>
  /\ UNCHANGED <<guardVars, pollVars, pageVars, tokenVars,
                 switchVars, httpVars>>

\* getOperationResult returns the result or undefined: result ?? response.data
AsyncResultReturn ==
  /\ apc = "result"
  /\ \E found \in BOOLEAN :
       areturn' = OperationReturn(astate, IF found THEN "result" ELSE "data")
  /\ apc' = "done"
  /\ UNCHANGED <<atool, aresp, alro, acalls, astate>>
  /\ UNCHANGED <<guardVars, pollVars, pageVars, tokenVars,
                 switchVars, httpVars>>

InitAsync == GuardIdle /\ PollIdle /\ AsyncIdle /\ PageIdle /\ TokenIdle
  /\ SwitchIdle /\ HttpIdle

AsyncNext ==
  \/ AsyncInvoke
  \/ AsyncPostFails
  \/ AsyncResponse
  \/ AsyncPollReturn
  \/ AsyncResultReturn

SpecAsync == InitAsync /\ [][AsyncNext]_vars

\* --------------------------------------------------------------- paginateAll

FABRIC_BASE_URL ==
  <<"h","t","t","p","s",":","/","/","a","p","i",".","f","a","b","r","i","c",".","m","i","c","r","o","s","o","f","t",".","c","o","m","/","v","1">>
\* The same address with its scheme in capitals.
UpperBaseUrl ==
  <<"H","T","T","P","S",":","/","/","a","p","i",".","f","a","b","r","i","c",".","m","i","c","r","o","s","o","f","t",".","c","o","m","/","v","1">>
\* "http"
Http == <<"h","t","t","p">>
\* "continuationToken="
ContinuationTokenEq ==
  <<"c","o","n","t","i","n","u","a","t","i","o","n","T","o","k","e","n","=">>

\* Paths the tools hand to paginateAll: workspace_list's, without a query
\* string, and an item listing's, with one.
StartPaths ==
  { <<"/","w","o","r","k","s","p","a","c","e","s">>,
    <<"/","w","o","r","k","s","p","a","c","e","s","/","w","1","/","i","t","e","m","s","?","t","y","p","e","=","R","e","f","l","e","x">> }

\* String.prototype.startsWith and includes (of one character).
StartsWith(str, prefix) ==
  Len(str) >= Len(prefix) /\ SubSeq(str, 1, Len(prefix)) = prefix
Includes(str, c) == \E i \in DOMAIN str : str[i] = c

\* The truth value of a string | null | undefined.
Truthy(v) == ~v.null /\ v.value # <<>>

Digits == <<"1", "2", "3", "4", "5", "6">>
ItemKinds == {"absent", "one", "two"}
LinkKinds == {"token", "uri", "both", "upper"}
LastKinds == {"none", "empty"}

\* The service's side: where the query string goes on.
QueryJoin(path) == IF \E i \in DOMAIN path : path[i] = "?" THEN "&" ELSE "?"
TokenOf(i) == <<"t", Digits[i]>>
UriOf(base, path, i) ==
  base \o path \o <<QueryJoin(path)>> \o ContinuationTokenEq
    \o <<"u", Digits[i]>>

\* The body of page i: its items under the result key, and what it says
\* about the next page.
PageItems(i, kind) ==
  CASE kind = "absent" -> Null
    [] kind = "one" -> Str(<< [page |-> i, n |-> 1] >>)
    [] kind = "two" ->
         Str(<< [page |-> i, n |-> 1], [page |-> i, n |-> 2] >>)
PageBody(path, i, kind, link) ==
  [ items |-> PageItems(i, kind),
    continuationUri |->
      CASE link \in {"uri", "both"} -> Str(UriOf(FABRIC_BASE_URL, path, i))
        [] link = "upper" -> Str(UriOf(UpperBaseUrl, path, i))
        [] OTHER -> Null,
    continuationToken |->
      CASE link \in {"token", "both"} -> Str(TokenOf(i))
        [] link = "empty" -> Str(<<>>)
        [] OTHER -> Null ]

\* The listings of k pages.
ListingsOf(k) ==
  { [ path |-> path,
      pages |-> [i \in 1..k |->
                   PageBody(path, i, kinds[i],
                            IF i < k THEN links[i] ELSE last)] ] :
      path \in StartPaths, kinds \in [1..k -> ItemKinds],
      links \in [1..(k - 1) -> LinkKinds], last \in LastKinds }

\* The listings of up to n pages.
Listings(n) == UNION { ListingsOf(k) : k \in 1..n }

\* The addresses at which the service serves page i of the listing.
PageUrls(l, i) ==
  IF i = 1 THEN {FABRIC_BASE_URL \o l.path}
  ELSE LET prev == l.pages[i - 1]
       IN  (IF Truthy(prev.continuationUri)
            THEN {prev.continuationUri.value} ELSE {})
           \cup
           (IF Truthy(prev.continuationToken)
            THEN {FABRIC_BASE_URL \o l.path \o <<QueryJoin(l.path)>>
                    \o ContinuationTokenEq \o prev.continuationToken.value}
            ELSE {})

\* The page the service serves at url, or 0 when it answers 404.
PageAt(l, url) ==
  IF \E i \in DOMAIN l.pages : url \in PageUrls(l, i)
  THEN CHOOSE i \in DOMAIN l.pages : url \in PageUrls(l, i)
  ELSE 0

PageInit ==
  /\ listing \in Listings(MaxPages)
  /\ currentPath = Null
  /\ all = <<>>
  /\ pgFetches = <<>>
  /\ pgDelivered = <<>>
  /\ pgpc = "idle"
  /\ pgout = NotEnded
  /\ pgfault = "none"

\* A bug: only "?" is ever used.
SeparatorQuestion(path) == <<"?">>

\* path.includes("?") ? "&" : "?"
Separator(path) == IF Includes(path, "?") THEN <<"&">> ELSE <<"?">>

\* `${path}${separator}continuationToken=${continuationToken}`
TokenPath(path, token) ==
  path \o Separator(path) \o ContinuationTokenEq \o token

\* A bug: a continuation token is not followed.
NextPathNoToken(path, data) ==
  IF Truthy(data.continuationUri) THEN data.continuationUri ELSE Null

\* The choice of the next currentPath from the body just read.
NextPath(path, data) ==
  IF Truthy(data.continuationUri) THEN data.continuationUri
  ELSE IF Truthy(data.continuationToken)
    THEN Str(TokenPath(path, data.continuationToken.value))
  ELSE Null

\* (data[resultKey] as T[]) ?? []
ItemsOf(data) == IF data.items.null THEN <<>> ELSE data.items.value

\* A bug: the new items go in front.
AccumulatePrepend(acc, items) == items \o acc

\* all.push(...items)
Accumulate(acc, items) == acc \o items

\* The request one turn of the loop sends: getFullUrl fetches currentPath
\* itself, get fetches the base URL followed by currentPath.
Request(cur) ==
  IF StartsWith(cur, Http)
  THEN [via |-> "getFullUrl", path |-> cur, url |-> cur]
  ELSE [via |-> "get", path |-> cur, url |-> FABRIC_BASE_URL \o cur]

\* A bug: what was gathered so far is returned when a fetch fails.
AbortPartial(acc, error) == [kind |-> "ok", items |-> acc, error |-> "none"]

\* An exception leaves paginateAll: nothing is returned.
Abort(acc, error) == [kind |-> "error", items |-> <<>>, error |-> error]

Return(acc) == [kind |-> "ok", items |-> acc, error |-> "none"]

\* paginateAll is called: it runs up to the first await, the token request
\* of getHeaders.
PaginateStart ==
  /\ pgpc = "idle"
  /\ all' = <<>>
  /\ currentPath' = Str(listing.path)
  /\ IF Truthy(Str(listing.path))
     THEN pgpc' = "headers" /\ UNCHANGED pgout
     ELSE pgpc' = "done" /\ pgout' = Return(<<>>)
  /\ UNCHANGED <<listing, pgFetches, pgDelivered, pgfault>>
  /\ UNCHANGED <<guardVars, pollVars, asyncVars, tokenVars,
                 switchVars, httpVars>>

\* getHeaders has its token: the request is sent.
PageSend ==
  /\ pgpc = "headers"
  /\ pgFetches' = Append(pgFetches, Request(currentPath.value))
  /\ pgpc' = "fetching"
  /\ UNCHANGED <<listing, currentPath, all, pgDelivered, pgout, pgfault>>
  /\ UNCHANGED <<guardVars, pollVars, asyncVars, tokenVars,
                 switchVars, httpVars>>

\* getHeaders fails: no request is sent and the error leaves paginateAll.
PageAuthFails ==
  /\ pgpc = "headers"
  /\ pgfault' = "AuthenticationFailed"
  /\ pgout' = Abort(all, "AuthenticationFailed")
  /\ pgpc' = "done"
  /\ UNCHANGED <<listing, currentPath, all, pgFetches, pgDelivered>>
  /\ UNCHANGED <<guardVars, pollVars, asyncVars, tokenVars,
                 switchVars, httpVars>>

\* The service answers with the page it serves at the address: the items
\* are added and the loop goes on or ends.
PageDelivered ==
  /\ pgpc = "fetching"
  /\ PageAt(listing, pgFetches[Len(pgFetches)].url) # 0
  /\ LET data ==
           listing.pages[PageAt(listing, pgFetches[Len(pgFetches)].url)]
         acc == Accumulate(all, ItemsOf(data))
         next == NextPath(listing.path, data)
     IN  /\ pgDelivered' = Append(pgDelivered, data)
         /\ all' = acc
         /\ currentPath' = next
         /\ IF Truthy(next)
            THEN pgpc' = "headers" /\ UNCHANGED pgout
            ELSE pgpc' = "done" /\ pgout' = Return(acc)
  /\ UNCHANGED <<listing, pgFetches, pgfault>>
  /\ UNCHANGED <<guardVars, pollVars, asyncVars, tokenVars,
                 switchVars, httpVars>>

\* The service has nothing at the address: handleResponse throws the 404.
PageNotFound ==
  /\ pgpc = "fetching"
  /\ PageAt(listing, pgFetches[Len(pgFetches)].url) = 0
  /\ pgout' = Abort(all, "ApiError")
  /\ pgpc' = "done"
  /\ UNCHANGED <<listing, currentPath, all, pgFetches, pgDelivered, pgfault>>
  /\ UNCHANGED <<guardVars, pollVars, asyncVars, tokenVars,
                 switchVars, httpVars>>

\* The request fails (handleResponse throws for the status), or it is
\* answered without a body and data[resultKey] throws a TypeError.
PageFails ==
  /\ pgpc = "fetching"
  /\ \E f \in {"ApiError", "TypeError"} :
       /\ pgfault' = f
       /\ pgout' = Abort(all, f)
  /\ pgpc' = "done"
  /\ UNCHANGED <<listing, currentPath, all, pgFetches, pgDelivered>>
  /\ UNCHANGED <<guardVars, pollVars, asyncVars, tokenVars,
                 switchVars, httpVars>>

InitPage == GuardIdle /\ PollIdle /\ AsyncIdle /\ PageInit /\ TokenIdle
  /\ SwitchIdle /\ HttpIdle

PageNext ==
  \/ PaginateStart
  \/ PageSend
  \/ PageAuthFails
  \/ PageDelivered
  \/ PageNotFound
  \/ PageFails

SpecPage == InitPage /\ [][PageNext]_vars

\* -------------------------------------------------------------- TokenManager

\* 5 * 60 * 1000
REFRESH_BUFFER_MS == 300000

\* The lifetimes of the tokens the credential hands out, in milliseconds:
\* exactly the refresh buffer, or two minutes more (fresh for one more
\* minute of the clock, at the buffer's edge after two).
Lifetimes ==
  {REFRESH_BUFFER_MS, REFRESH_BUFFER_MS + 120000}

\* How credential.getToken can fail: with an error whose message names
\* "az login" or DefaultAzureCredential, which getToken wraps, or with
\* another one (a null token among them), which it throws on.
AcquireFailures == {"Azure authentication failed", "rethrown"}

\* A bug: an entry with exactly the buffer left is still reused.
FreshAtBuffer(cached, time) ==
  /\ cached # NoToken
  /\ cached.expiresOnTimestamp - time >= REFRESH_BUFFER_MS

\* cached && cached.expiresOnTimestamp - Date.now() > REFRESH_BUFFER_MS
Fresh(cached, time) ==
  /\ cached # NoToken
  /\ cached.expiresOnTimestamp - time > REFRESH_BUFFER_MS

\* getToken is called.  Calls in flight are interchangeable, so a new one
\* takes the lowest free place.
CallStarts(p, s) ==
  /\ tpc[p] = "idle"
  /\ \A q \in TProcs : q < p => tpc[q] # "idle"
  /\ tops < MaxTokenOps
  /\ tops' = tops + 1
  /\ tlastOp' = [op |-> "getToken", arg |-> s, by |-> p]
  /\ tpending' = tpending \ {s}

\* getToken finds a fresh entry and returns its token.
GetTokenHit(p) ==
  \E s \in Scopes :
    /\ CallStarts(p, s)
    /\ Fresh(cache[s], tnow)
    /\ tret' = [kind |-> "token", token |-> cache[s]]
    /\ tlast' = [tlast EXCEPT ![s] =
                   [by |-> 0, acquired |-> FALSE, ret |-> cache[s]]]
    /\ UNCHANGED <<currentTenantId, credential, cache, tnow, issued, tpc,
                   tscope, tcred, tno>>
    /\ UNCHANGED <<guardVars, pollVars, asyncVars, pageVars, switchVars,
                 httpVars>>

\* getToken finds no entry or a stale one and calls this.credential.getToken.
GetTokenMiss(p) ==
  \E s \in Scopes :
    /\ CallStarts(p, s)
    /\ ~Fresh(cache[s], tnow)
    /\ issued' = issued + 1
    /\ tscope' = [tscope EXCEPT ![p] = s]
    /\ tno' = [tno EXCEPT ![p] = issued + 1]
    /\ tcred' = [tcred EXCEPT ![p] = credential]
    /\ tpc' = [tpc EXCEPT ![p] = "acquiring"]
    /\ tlast' = [tlast EXCEPT ![s] =
                   [by |-> p, acquired |-> TRUE, ret |-> NoToken]]
    /\ UNCHANGED <<currentTenantId, credential, cache, tnow, tret>>
    /\ UNCHANGED <<guardVars, pollVars, asyncVars, pageVars, switchVars,
                 httpVars>>

\* The call in place p ends.
CallEnds(p) ==
  /\ tpc' = [tpc EXCEPT ![p] = "idle"]
  /\ tscope' = [tscope EXCEPT ![p] = "none"]
  /\ tcred' = [tcred EXCEPT ![p] = NoTenant]
  /\ tno' = [tno EXCEPT ![p] = 0]

\* The credential hands out a token: it is cached under the scope and
\* returned.
GetTokenAcquired(p) ==
  /\ tpc[p] = "acquiring"
  /\ \E life \in Lifetimes :
       LET token == [token |-> tno[p],
                     expiresOnTimestamp |-> tnow + life,
                     credential |-> tcred[p]]
       IN  /\ cache' = [cache EXCEPT ![tscope[p]] = token]
           /\ tret' = [kind |-> "token", token |-> token]
           /\ tlast' = IF tlast[tscope[p]].by = p
                       THEN [tlast EXCEPT ![tscope[p]] =
                               [by |-> 0, acquired |-> TRUE, ret |-> token]]
                       ELSE tlast
  /\ CallEnds(p)
  /\ UNCHANGED <<currentTenantId, credential, tnow, issued, tops, tlastOp,
                 tpending>>
  /\ UNCHANGED <<guardVars, pollVars, asyncVars, pageVars, switchVars,
                 httpVars>>

\* The credential fails: getToken throws and the cache stays as it is.
GetTokenFails(p) ==
  /\ tpc[p] = "acquiring"
  /\ \E f \in AcquireFailures :
       tret' = [kind |-> f, token |-> NoToken]
  /\ tlast' = IF tlast[tscope[p]].by = p
              THEN [tlast EXCEPT ![tscope[p]] = NoLast]
              ELSE tlast
  /\ CallEnds(p)
  /\ UNCHANGED <<currentTenantId, credential, cache, tnow, issued, tops,
                 tlastOp, tpending>>
  /\ UNCHANGED <<guardVars, pollVars, asyncVars, pageVars, switchVars,
                 httpVars>>

\* switchTenant(tenantId)
SwitchTenant ==
  /\ tops < MaxTokenOps
  /\ tops' = tops + 1
  /\ \E t \in Tenants \cup {NoTenant} :
       /\ currentTenantId' = t
       /\ credential' = t
       /\ tlastOp' = [op |-> "switchTenant", arg |-> t, by |-> 0]
  /\ tpending' = {s \in Scopes : cache[s] # NoToken}
  /\ cache' = [s \in Scopes |-> NoToken]
  /\ tlast' = [s \in Scopes |-> NoLast]
  /\ UNCHANGED <<tnow, issued, tpc, tscope, tcred, tno, tret>>
  /\ UNCHANGED <<guardVars, pollVars, asyncVars, pageVars, switchVars,
                 httpVars>>

\* clearCache()
ClearCache ==
  /\ tops < MaxTokenOps
  /\ tops' = tops + 1
  /\ tlastOp' = [op |-> "clearCache", arg |-> NoTenant, by |-> 0]
  /\ cache' = [s \in Scopes |-> NoToken]
  /\ tlast' = [s \in Scopes |-> NoLast]
  /\ UNCHANGED <<currentTenantId, credential, tnow, issued, tpc, tscope,
                 tcred, tno, tret, tpending>>
  /\ UNCHANGED <<guardVars, pollVars, asyncVars, pageVars, switchVars,
                 httpVars>>

\* A minute passes.
TokenTick ==
  /\ tops < MaxTokenOps
  /\ tops' = tops + 1
  /\ tlastOp' = [op |-> "tick", arg |-> NoTenant, by |-> 0]
  /\ tnow' = tnow + 60000
  /\ UNCHANGED <<currentTenantId, credential, cache, issued, tpc, tscope,
                 tcred, tno, tret, tlast, tpending>>
  /\ UNCHANGED <<guardVars, pollVars, asyncVars, pageVars, switchVars,
                 httpVars>>

InitToken == GuardIdle /\ PollIdle /\ AsyncIdle /\ PageIdle /\ TokenIdle
  /\ SwitchIdle /\ HttpIdle

TokenNext ==
  \/ \E p \in TProcs :
       \/ GetTokenHit(p)
       \/ GetTokenMiss(p)
       \/ GetTokenAcquired(p)
       \/ GetTokenFails(p)
  \/ SwitchTenant
  \/ ClearCache
  \/ TokenTick

SpecToken == InitToken /\ [][TokenNext]_vars

\* ------------------------------------------------------- auth_switch_tenant

\* tokenManager.switchTenant(t): the tenant is set, a credential is built for
\* it and the cache is cleared.
switchTenant(t) ==
  /\ currentTenantId' = t
  /\ credential' = t
  /\ cache' = [s \in Scopes |-> NoToken]

\* A bug: the catch block reports the error without rolling back.
CatchNoRollback(p) == UNCHANGED <<currentTenantId, credential, cache>>

\* catch (error) { tokenManager.switchTenant(previousTenantId); ... }
Catch(p) == switchTenant(sprev[p])

\* The call in place p ends.
SwitchEnds(p, kind) ==
  /\ slast' = [kind |-> kind, moved |-> starget[p] # sprev[p],
               over |-> sover[p]]
  /\ spc' = [spc EXCEPT ![p] = "idle"]
  /\ starget' = [starget EXCEPT ![p] = NoTenant]
  /\ sprev' = [sprev EXCEPT ![p] = NoTenant]
  /\ sno' = [sno EXCEPT ![p] = 0]
  /\ sover' = [sover EXCEPT ![p] = FALSE]

\* The tool is called: it reads the current tenant, switches to tenantId and
\* asks for a Fabric token, which the emptied cache cannot serve, so the new
\* credential is called: two calls of the TokenManager, switchTenant and
\* getFabricToken.  Calls of the tool in flight are interchangeable, so a
\* new one takes the lowest free place.
SwitchStart(p) ==
  /\ spc[p] = "idle"
  /\ \A q \in SProcs : q < p => spc[q] # "idle"
  /\ tops + 2 <= MaxTokenOps
  /\ tops' = tops + 2
  /\ \E t \in Tenants :
       /\ starget' = [starget EXCEPT ![p] = t]
       /\ switchTenant(t)
       /\ tlastOp' = [op |-> "auth_switch_tenant", arg |-> t, by |-> p]
  /\ sprev' = [sprev EXCEPT ![p] = currentTenantId]
  /\ issued' = issued + 1
  /\ sno' = [sno EXCEPT ![p] = issued + 1]
  /\ spc' = [spc EXCEPT ![p] = "verifying"]
  /\ sover' = [q \in SProcs |->
                 IF q = p THEN \E r \in SProcs : spc[r] = "verifying"
                 ELSE sover[q] \/ spc[q] = "verifying"]
  /\ tpending' = {s \in Scopes : cache[s] # NoToken} \ {"fabric"}
  /\ tlast' = [s \in Scopes |->
                 IF s = "fabric"
                 THEN [by |-> MaxCallers + p, acquired |-> TRUE,
                       ret |-> NoToken]
                 ELSE NoLast]
  /\ UNCHANGED <<tnow, tpc, tscope, tcred, tno, tret, slast, sverified>>
  /\ UNCHANGED <<guardVars, pollVars, asyncVars, pageVars, httpVars>>

\* The credential hands out a token, getToken caches and returns it, the
\* token decodes and the tool reports the switch.
SwitchVerified(p) ==
  /\ spc[p] = "verifying"
  /\ \E life \in Lifetimes :
       LET token == [token |-> sno[p],
                     expiresOnTimestamp |-> tnow + life,
                     credential |-> starget[p]]
       IN  /\ cache' = [cache EXCEPT !["fabric"] = token]
           /\ tlast' = IF tlast["fabric"].by = MaxCallers + p
                       THEN [tlast EXCEPT !["fabric"] =
                               [by |-> 0, acquired |-> TRUE, ret |-> token]]
                       ELSE tlast
  /\ sverified' = starget[p]
  /\ SwitchEnds(p, "switched")
  /\ UNCHANGED <<currentTenantId, credential, tnow, issued, tops, tlastOp,
                 tpc, tscope, tcred, tno, tret, tpending>>
  /\ UNCHANGED <<guardVars, pollVars, asyncVars, pageVars, httpVars>>

\* The verification fails, because the credential does or because the token
\* it hands out (which getToken caches) does not decode: the catch block
\* runs and the tool reports the failure.
SwitchFails(p) ==
  /\ spc[p] = "verifying"
  /\ Catch(p)
  /\ \E cached \in BOOLEAN :
       tpending' = {s \in Scopes : cache[s] # NoToken}
                     \cup (IF cached THEN {"fabric"} ELSE {})
  /\ tlast' = [s \in Scopes |-> NoLast]
  /\ SwitchEnds(p, "failed")
  /\ UNCHANGED <<tnow, issued, tops, tlastOp, tpc, tscope, tcred, tno, tret,
                 sverified>>
  /\ UNCHANGED <<guardVars, pollVars, asyncVars, pageVars, httpVars>>

InitSwitch == GuardIdle /\ PollIdle /\ AsyncIdle /\ PageIdle /\ TokenIdle
  /\ SwitchIdle /\ HttpIdle

\* The tool runs next to the getToken calls of the other tools.
SwitchNext ==
  \/ \E p \in SProcs :
       \/ SwitchStart(p)
       \/ SwitchVerified(p)
       \/ SwitchFails(p)
  \/ \E p \in TProcs :
       \/ GetTokenHit(p)
       \/ GetTokenMiss(p)
       \/ GetTokenAcquired(p)
       \/ GetTokenFails(p)

SpecSwitch == InitSwitch /\ [][SwitchNext]_vars

\* ------------------------------------------- FabricClient.handleResponse

Methods == {"get", "post", "patch", "delete", "getFullUrl"}

\* The statuses the service answers with; response.ok is 200..299.
HttpStatuses == {200, 201, 202, 204, 400, 404, 429, 500}
ResponseOk(status) == status >= 200 /\ status <= 299

ApplicationJson ==
  <<"a","p","p","l","i","c","a","t","i","o","n","/","j","s","o","n">>
ContentTypes ==
  { NoHeader,
    Header(ApplicationJson),
    Header(ApplicationJson
             \o <<";"," ","c","h","a","r","s","e","t","=","u","t","f","-","8">>),
    Header(<<"t","e","x","t","/","p","l","a","i","n">>) }
ContentLengths == {NoHeader, Header(<<"0">>), Header(<<"4","2">>)}
RetryAfters == {NoHeader, Header(<<"5">>)}

\* str.includes(sub)
IncludesText(str, sub) ==
  \E i \in 1..(Len(str) - Len(sub) + 1) :
    SubSeq(str, i, i + Len(sub) - 1) = sub

\* (response.headers.get("content-type") ?? "").includes("application/json")
IsJson(resp) ==
  IncludesText(IF resp.contentType.present THEN resp.contentType.value
               ELSE <<>>, ApplicationJson)

\* What the body holds: { error: { message, errorCode } }, { message,
\* errorCode }, another JSON value, text that is not JSON, or plain text.
JsonBodies == {"envelope", "flat", "data", "invalid"}
TextBodies == {"text"}

HttpResponses ==
  { r \in [status : HttpStatuses, opId : OperationIdHeaders,
           location : {NoHeader, Header(OperationsSlash \o <<"o","p","2">>)},
           contentLength : ContentLengths, contentType : ContentTypes,
           retryAfter : RetryAfters, body : JsonBodies \cup TextBodies] :
      r.body \in JsonBodies <=> IsJson(r) }

\* response.statusText
StatusText(status) ==
  CASE status = 400 -> "Bad Request"
    [] status = 404 -> "Not Found"
    [] status = 500 -> "Internal Server Error"
    [] OTHER -> "OK"

\* parseInt(retryAfter, 10) * 1000 or 30000, as the message shows it
RateLimitedMessage(resp) ==
  IF resp.retryAfter.present /\ resp.retryAfter.value # <<>>
  THEN "Rate limited. Retry after 5s"
  ELSE "Rate limited. Retry after 30s"

\* (errorBody?.message as string) ?? response.statusText
ErrorMessage(resp) ==
  IF resp.body \in {"envelope", "flat"} THEN "provider message"
  ELSE StatusText(resp.status)

\* (errorBody?.errorCode as string) ?? undefined
ErrorCode(resp) ==
  IF resp.body \in {"envelope", "flat"} THEN "ProviderCode" ELSE Undefined

HttpThrown(resp, error) ==
  [via |-> "thrown", data |-> "none", lro |-> NoLro, status |-> resp.status,
   error |-> error]
HttpReturned(resp, data) ==
  [via |-> "returned", data |-> data, lro |-> extractLro(resp),
   status |-> resp.status, error |-> NoHttpError]

\* What response.json() throws on text that is not JSON.
SyntaxError ==
  [type |-> "SyntaxError", message |-> "Unexpected token", statusCode |-> 0,
   errorCode |-> Undefined]

\* 429 first, then the empty answer (204 or content-length 0), then the
\* body, then the status.
handleResponse(resp) ==
  IF resp.status = 429
    THEN HttpThrown(resp, FabricApiError(RateLimitedMessage(resp), 429,
                                         "TooManyRequests"))
  ELSE IF resp.status = 204 \/ resp.contentLength = Header(<<"0">>)
    THEN HttpReturned(resp, Undefined)
  ELSE IF IsJson(resp) /\ resp.body = "invalid"
    THEN HttpThrown(resp, SyntaxError)
  ELSE IF ~ResponseOk(resp.status) /\ resp.status # 202
    THEN HttpThrown(resp, FabricApiError(ErrorMessage(resp), resp.status,
                                         ErrorCode(resp)))
  ELSE HttpReturned(resp, resp.body)

\* What a call throws when no response arrives: getHeaders could get no
\* token, or fetch rejected.
NoResponseErrors ==
  { [type |-> "Error", message |-> "Azure authentication failed",
     statusCode |-> 0, errorCode |-> Undefined],
    [type |-> "TypeError", message |-> "fetch failed",
     statusCode |-> 0, errorCode |-> Undefined] }

\* get, post, patch, delete or getFullUrl is called: the headers are built
\* and the request is sent.
HttpCall ==
  /\ hpc = "idle"
  /\ hmethod' \in Methods
  /\ hpc' = "fetching"
  /\ UNCHANGED <<hresp, hout>>
  /\ UNCHANGED <<guardVars, pollVars, asyncVars, pageVars, tokenVars,
                 switchVars>>

\* fetch resolves and the call returns this.handleResponse(response).
HttpResponse ==
  /\ hpc = "fetching"
  /\ \E resp \in HttpResponses :
       /\ hresp' = resp
       /\ hout' = handleResponse(resp)
  /\ hpc' = "done"
  /\ UNCHANGED hmethod
  /\ UNCHANGED <<guardVars, pollVars, asyncVars, pageVars, tokenVars,
                 switchVars>>

\* No response: the call throws what getHeaders or fetch threw.
HttpNoResponse ==
  /\ hpc = "fetching"
  /\ \E e \in NoResponseErrors :
       hout' = [via |-> "thrown", data |-> "none", lro |-> NoLro,
                status |-> 0, error |-> e]
  /\ hpc' = "done"
  /\ UNCHANGED <<hmethod, hresp>>
  /\ UNCHANGED <<guardVars, pollVars, asyncVars, pageVars, tokenVars,
                 switchVars>>

InitHttp == GuardIdle /\ PollIdle /\ AsyncIdle /\ PageIdle /\ TokenIdle
  /\ SwitchIdle /\ HttpIdle

HttpNext ==
  \/ HttpCall
  \/ HttpResponse
  \/ HttpNoResponse

SpecHttp == InitHttp /\ [][HttpNext]_vars

\* ------------------------------------------------- properties of the guard

\* The handlers that call assertWorkspaceAllowed before their write.
GuardedTools == {"lakehouse_delete", "graphql_api_create"}
\* The invocations in which the guard has run.
Asked(p) == pc[p] # "idle" /\ tool[p] \in GuardedTools

\* C1: with an empty allow-list every call of assertWorkspaceAllowed, for
\* every workspace id and whatever the workspace is called, ends with the
\* "not configured" error, and no GET /workspaces/{id} is ever sent.
C1_EmptyListNotConfigured ==
  patterns = <<>> =>
    /\ \A i \in Ids : reads[i] = 0
    /\ \A p \in Procs :
         Asked(p) => /\ guard[p] = "GuardNotConfigured"
                     /\ pc[p] = "done"
                     /\ result[p] = NotConfigured

\* C1's case: both workspaces have been refused with an empty list.
C1_Witness ==
  /\ patterns = <<>>
  /\ \E p, q \in Procs :
       /\ Asked(p) /\ Asked(q)
       /\ wid[p] = "w1" /\ wid[q] = "w2"
       /\ result[p].kind = "GuardNotConfigured"
       /\ result[q].kind = "GuardNotConfigured"

\* C2: while the allow-list is empty no tool sends a write request.
C2_NoWriteWhenUnconfigured == patterns = <<>> => writes = {}

\* C3: an invocation of a guarded tool has sent its write only if
\* assertWorkspaceAllowed succeeded in that same invocation; after a guard
\* failure (not configured, denied, name not resolved) no write was sent.
C3_WriteOnlyAfterGuard ==
  \A p \in Procs :
    tool[p] \in GuardedTools =>
      /\ wrote[p] => guard[p] = "allowed"
      /\ pc[p] \in {"write", "writing", "polling", "result"} =>
           guard[p] = "allowed"
      /\ guard[p] \in {"GuardNotConfigured", "GuardDenied", "failed",
                       "resolving"} => ~wrote[p]

\* C3's case: a guarded delete was sent after the name was resolved and
\* matched, while another guarded invocation was refused and sent nothing.
C3_Witness ==
  \E p, q \in Procs :
    /\ tool[p] = "lakehouse_delete" /\ wrote[p] /\ guard[p] = "allowed"
    /\ ~allowAll /\ wid[p] \in DOMAIN nameCache
    /\ tool[q] \in GuardedTools /\ pc[q] = "done"
    /\ guard[q] = "GuardDenied" /\ ~wrote[q]

\* Case-insensitive equality of two characters.
LowerOf(c) ==
  IF \E i \in DOMAIN UpperLetters : UpperLetters[i] = c
  THEN LowerLetters[CHOOSE i \in DOMAIN UpperLetters : UpperLetters[i] = c]
  ELSE c
SameLetter(a, b) == LowerOf(a) = LowerOf(b)

\* Glob matching as C4 words it: "*" stands for any substring, every other
\* character for itself, the whole name must be used up.
RECURSIVE GlobAnySubstring(_, _)
GlobAnySubstring(pattern, name) ==
  IF pattern = <<>> THEN name = <<>>
  ELSE IF Head(pattern) = "*"
    THEN \/ GlobAnySubstring(Tail(pattern), name)
         \/ name # <<>> /\ GlobAnySubstring(pattern, Tail(name))
  ELSE /\ name # <<>>
       /\ SameLetter(Head(name), Head(pattern))
       /\ GlobAnySubstring(Tail(pattern), Tail(name))

\* The same, with "*" standing for any substring free of line terminators.
RECURSIVE GlobOneLine(_, _)
GlobOneLine(pattern, name) ==
  IF pattern = <<>> THEN name = <<>>
  ELSE IF Head(pattern) = "*"
    THEN \/ GlobOneLine(Tail(pattern), name)
         \/ /\ name # <<>>
            /\ Head(name) \notin LineTerminators
            /\ GlobOneLine(pattern, Tail(name))
  ELSE /\ name # <<>>
       /\ SameLetter(Head(name), Head(pattern))
       /\ GlobOneLine(Tail(pattern), Tail(name))

\* str occurs in text as a run of consecutive characters.
OccursIn(str, text) ==
  \E k \in 0..(Len(text) - Len(str)) :
    SubSeq(text, k + 1, k + Len(str)) = str

\* The allow-list is configured and has no "*" entry.
Selective ==
  patterns # <<>> /\ \A i \in DOMAIN patterns : patterns[i] # <<"*">>
\* The guard has come to a verdict on the name in this invocation.
Judged(p) == Asked(p) /\ guard[p] \in {"allowed", "GuardDenied"}

\* C4 as amended: with a configured list without the sentinel, the guard
\* allows exactly the names that some pattern matches, "*" standing for any
\* substring without a line terminator, letters compared without case; a
\* refusal is the "denied" error and names every configured pattern.
C4_GlobDecides ==
  Selective =>
    \A p \in Procs :
      Judged(p) =>
        /\ guard[p] = "allowed" <=>
             \E i \in DOMAIN patterns :
               GlobOneLine(patterns[i], serverName[wid[p]])
        /\ guard[p] = "GuardDenied" =>
             /\ pc[p] = "done"
             /\ result[p].kind = "GuardDenied"
             /\ result[p].name = serverName[wid[p]]
             /\ \A i \in DOMAIN patterns :
                  OccursIn(patterns[i], result[p].listed)

\* C4's case: under "*-Dev,Sandbox*" the name "sales-dev" was allowed and
\* the other workspace, "Sandbox-42", too.
C4_Witness ==
  /\ Selective /\ Len(patterns) = 2
  /\ \E p, q \in Procs :
       /\ Judged(p) /\ Judged(q)
       /\ serverName[wid[p]] = Names[2] /\ guard[p] = "allowed"
       /\ serverName[wid[q]] = Names[3] /\ guard[q] = "allowed"

\* C4 as stated: "*" stands for any substring whatever.
C4_GlobAnySubstring ==
  Selective =>
    \A p \in Procs :
      Judged(p) =>
        (guard[p] = "allowed" <=>
           \E i \in DOMAIN patterns :
             GlobAnySubstring(patterns[i], serverName[wid[p]]))

\* C5: when the list holds the entry "*", alone or among others, every call
\* of assertWorkspaceAllowed succeeds, no GET /workspaces/{id} is sent and
\* the name cache stays as it was.
C5_SentinelAllowsAll ==
  (\E i \in DOMAIN patterns : patterns[i] = <<"*">>) =>
    /\ \A i \in Ids : reads[i] = 0
    /\ DOMAIN nameCache = {}
    /\ \A p \in Procs : Asked(p) => guard[p] = "allowed"

\* C5's case: "*" stands next to another pattern and both workspaces have
\* passed the guard.
C5_Witness ==
  /\ Len(patterns) = 2
  /\ \E i \in DOMAIN patterns : patterns[i] = <<"*">>
  /\ \E p, q \in Procs :
       /\ Asked(p) /\ Asked(q) /\ wid[p] # wid[q]
       /\ guard[p] = "allowed" /\ guard[q] = "allowed"
       /\ wrote[p]

\* C6: for each workspace id the guard sends GET /workspaces/{id} at most
\* once, however its calls follow one another or overlap.
C6_ReadAtMostOnce == \A i \in Ids : reads[i] <= 1

\* ------------------------------------------------ properties of the poller

\* pollOperation has ended.
Polled == ppc \in {"polled", "getting", "done"}
\* The state the last status fetch returned.
LastFetched == fetched[Len(fetched)]
\* No status fetch has failed.
AllFetched == Len(fetched) = fetches

\* C7: when the fetched status is Succeeded or Cancelled pollOperation
\* returns the fetched state; when it is Failed it throws an error that
\* carries the provider's error code and message.
C7_TerminalOutcome ==
  (Polled /\ pout.why # "fetch" /\ fetched # <<>>) =>
    /\ LastFetched.status \in {"Succeeded", "Cancelled"} =>
         /\ pout.via = "returned"
         /\ pout.state = LastFetched
    /\ LastFetched.status = "Failed" =>
         /\ pout.via = "thrown"
         /\ pout.error.type = "FabricApiError"
         /\ LastFetched.error.has =>
              /\ pout.error.errorCode = LastFetched.error.errorCode
              /\ pout.error.message = LastFetched.error.message

\* C7's case: the operation failed with ItemNameAlreadyInUse after running.
C7_Witness ==
  /\ Polled /\ Len(fetched) = 2 /\ AllFetched
  /\ LastFetched.status = "Failed"
  /\ pout.via = "thrown"
  /\ pout.error.errorCode = "ItemNameAlreadyInUse"

\* The errors a Failed status can make pollOperation throw, over every error
\* the provider may report.
FailureErrors == { FailedError(e) : e \in ProviderErrors \cup {NoError} }

\* C8: when every fetched status was NotStarted or Running and the call has
\* ended, it ended with the timeout error, after more than timeoutMs; the
\* timeout error is none of the errors a Failed status produces, and the
\* error of a Failed status is never the timeout error, whatever code and
\* message the provider reports.
C8_TimeoutNotFailure ==
  /\ (Polled /\ AllFetched
        /\ \A k \in DOMAIN fetched :
             fetched[k].status \in {"NotStarted", "Running"}) =>
       /\ pout.via = "thrown"
       /\ pout.why = "timeout"
       /\ pout.error.errorCode = "OperationTimeout"
       /\ now - start > timeoutMs
  /\ (Polled /\ pout.why = "timeout") => pout.error \notin FailureErrors
  /\ (Polled /\ pout.why = "failed") =>
       /\ pout.error # TimeoutError
       /\ pout.error.statusCode # TimeoutError.statusCode

\* C8's case: three fetches found the operation Running and the call timed
\* out.
C8_Witness ==
  /\ Polled /\ fetches = 3 /\ AllFetched
  /\ \A k \in DOMAIN fetched : fetched[k].status = "Running"
  /\ pout.why = "timeout"

\* The final statuses, as C9 lists them.
FinalStatuses == {"Succeeded", "Failed", "Cancelled"}
\* The answers of the status endpoint up to the k-th.
NoneFinalBefore(n) ==
  \A k \in 1..(n - 1) : StatusAt(k).status \notin FinalStatuses

\* C9: when the call ended on a final status, the fetches made are exactly
\* those up to the first final status of the sequence: none is skipped and
\* none follows it.  The call gives up before that status only when more
\* than timeoutMs has passed and no final status was fetched.
C9_ExactlyNFetches ==
  /\ (Polled /\ pout.why \in {"terminal", "failed"}) =>
       /\ StatusAt(fetches).status \in FinalStatuses
       /\ NoneFinalBefore(fetches)
       /\ Len(fetched) = fetches
  /\ (Polled /\ pout.why = "timeout") =>
       /\ NoneFinalBefore(fetches + 1)
       /\ now - start > timeoutMs

\* C9's case: Running, Running, Succeeded ends after three fetches.
C9_Witness ==
  /\ Len(statusSeq) = 3
  /\ statusSeq[1].status = "Running" /\ statusSeq[2].status = "Running"
  /\ statusSeq[3].status = "Succeeded"
  /\ ppc = "done" /\ pout.via = "returned" /\ fetches = 3
  /\ pout.state.status = "Succeeded"

\* C10: getOperationResult never throws: it returns the body when the
\* request succeeded and undefined when the request failed, whatever the
\* failure.
C10_ResultNeverThrows ==
  ppc = "done" =>
    /\ rout.via = "returned"
    /\ rres.ok => rout.value = rres.body
    /\ ~rres.ok => rout.value = Undefined

\* C10's case: the result request failed with a server error and the caller
\* was given undefined.
C10_Witness ==
  /\ ppc = "done"
  /\ ~rres.ok /\ rres.error.statusCode = 500
  /\ rout.via = "returned" /\ rout.value = Undefined

\* ------------------------------------------ properties of the LRO handlers

\* The response is "accepted-async": status 202 carrying an operation id, in
\* the x-ms-operation-id header or in the Location header.
AcceptedAsync ==
  /\ apc \notin {"idle", "posting"}
  /\ aresp.status = 202
  /\ \/ aresp.opId.present
     \/ /\ aresp.location.present
        /\ MatchOperationId(aresp.location.value) # <<>>

ImmediateResponse ==
  /\ apc = "done"
  /\ aresp # NoResponse
  /\ ~AcceptedAsync

\* C11: a handler whose POST is answered 202 with an operation id calls
\* pollOperation and, once pollOperation has returned a terminal state (and
\* only then), getOperationResult; a handler whose POST is answered at once
\* calls neither and returns that answer.
C11_PollThenResult ==
  /\ AcceptedAsync => acalls # <<>> /\ acalls[1] = "pollOperation"
  /\ (AcceptedAsync /\ astate # "none" /\ apc \in {"result", "done"})
       => acalls = <<"pollOperation", "getOperationResult">>
  /\ (\E i \in DOMAIN acalls : acalls[i] = "getOperationResult")
       => astate \in {"Succeeded", "Cancelled"}
  /\ ImmediateResponse => acalls = <<>> /\ areturn = Immediate

\* ---------------------------------------------- properties of paginateAll

\* A continuation URL or token the page carries: a string that is not empty.
Carried(v) == ~v.null /\ Len(v.value) > 0
CarriesNeither(page) ==
  ~Carried(page.continuationUri) /\ ~Carried(page.continuationToken)
TokenOnly(page) ==
  ~Carried(page.continuationUri) /\ Carried(page.continuationToken)

\* The listing's pages are linked by continuation tokens alone.
TokenLinked ==
  /\ \A i \in 1..(Len(listing.pages) - 1) : TokenOnly(listing.pages[i])
  /\ CarriesNeither(listing.pages[Len(listing.pages)])

\* Every continuation URL of the listing begins with "http".
HttpLinked ==
  \A i \in DOMAIN listing.pages :
    Carried(listing.pages[i].continuationUri)
      => SubSeq(listing.pages[i].continuationUri.value, 1, 4)
           = <<"h", "t", "t", "p">>

\* The items of pages i..Len(pages), page by page, each page in its order.
RECURSIVE ItemsFrom(_, _)
ItemsFrom(pages, i) ==
  IF i > Len(pages) THEN <<>>
  ELSE (IF pages[i].items.null THEN <<>> ELSE pages[i].items.value)
         \o ItemsFrom(pages, i + 1)

\* C12: for a listing whose pages are linked by continuation tokens, a walk
\* that no request failure cuts short returns the items of all its pages,
\* in page order and in the order within each page, each item once.
C12_AllItemsInOrder ==
  (pgpc = "done" /\ TokenLinked /\ pgfault = "none")
    => /\ pgout.kind = "ok"
       /\ pgout.items = ItemsFrom(listing.pages, 1)

C12_Witness ==
  /\ pgpc = "done"
  /\ TokenLinked
  /\ Len(listing.pages) = 3
  /\ pgout.kind = "ok"
  /\ Len(pgout.items) >= 5

\* C13: the walk ends at the first page that carries neither a continuation
\* URL nor a continuation token and not before: no request follows that
\* page, paginateAll returns, and a listing of K pages costs K requests.
C13_StopsAtLastPage ==
  /\ \A i \in 1..(Len(pgDelivered) - 1) : ~CarriesNeither(pgDelivered[i])
  /\ (pgDelivered # <<>> /\ CarriesNeither(pgDelivered[Len(pgDelivered)]))
       => /\ pgpc = "done"
          /\ pgout.kind = "ok"
          /\ Len(pgFetches) = Len(pgDelivered)
  /\ (pgpc = "done" /\ pgout.kind = "ok")
       => CarriesNeither(pgDelivered[Len(pgDelivered)])
  /\ (pgpc = "done" /\ pgfault = "none" /\ HttpLinked)
       => Len(pgFetches) = Len(listing.pages)

C13_Witness ==
  /\ pgpc = "done"
  /\ pgout.kind = "ok"
  /\ Len(listing.pages) = 3
  /\ Len(pgFetches) = 3
  /\ ~TokenLinked

\* The service answered the last request with an error of its own accord.
NotFound ==
  /\ pgpc = "done"
  /\ pgFetches # <<>>
  /\ PageAt(listing, pgFetches[Len(pgFetches)].url) = 0

\* C14: when a request of the walk fails, paginateAll ends there with that
\* error: no request follows the failed one and none of the items gathered
\* from the pages before it is returned.
C14_AbortOnFailure ==
  (pgfault # "none" \/ NotFound)
    => /\ pgpc = "done"
       /\ pgout.kind = "error"
       /\ pgout.error = (IF pgfault # "none" THEN pgfault ELSE "ApiError")
       /\ pgout.items = <<>>
       /\ Len(pgFetches) =
            Len(pgDelivered)
              + (IF pgfault = "AuthenticationFailed" THEN 0 ELSE 1)

C14_Witness ==
  /\ pgfault = "ApiError"
  /\ Len(pgDelivered) = 2
  /\ Len(all) >= 3
  /\ pgout.kind = "error"

\* C15: after a page that carries a continuation URL (with or without a
\* continuation token) the next request goes through getFullUrl to exactly
\* that URL.
C15_UrlUsedAsGiven ==
  \A j \in 2..Len(pgFetches) :
    Carried(pgDelivered[j - 1].continuationUri)
      => /\ pgFetches[j].via = "getFullUrl"
         /\ pgFetches[j].url = pgDelivered[j - 1].continuationUri.value

\* C16: after a page that carries a continuation token and no continuation
\* URL the next request asks for the path paginateAll was called with,
\* followed by "&" if that path holds a "?" and by "?" otherwise, followed
\* by "continuationToken=" and the token.
C16_TokenTargetsStartPath ==
  \A j \in 2..Len(pgFetches) :
    TokenOnly(pgDelivered[j - 1])
      => pgFetches[j].path =
           listing.path
             \o (IF \E i \in DOMAIN listing.path : listing.path[i] = "?"
                 THEN <<"&">> ELSE <<"?">>)
             \o ContinuationTokenEq
             \o pgDelivered[j - 1].continuationToken.value

C16_Witness ==
  /\ Len(pgFetches) = 3
  /\ Carried(pgDelivered[1].continuationUri)
  /\ TokenOnly(pgDelivered[2])
  /\ \E i \in DOMAIN listing.path : listing.path[i] = "?"
  /\ pgFetches[3].path # pgFetches[2].path

\* ------------------------------------------- properties of the TokenManager

\* The step is a call getToken(s), taking place p.
Calls(p, s) ==
  /\ tops' = tops + 1
  /\ tlastOp' = [op |-> "getToken", arg |-> s, by |-> p]

\* The step is a call that returns a cached token at once.
ReturnsCached(p, s) == Calls(p, s) /\ tpc'[p] = "idle"

\* The step is the end of an acquisition for scope s with a token.
ReturnsAcquired(p, s) ==
  /\ tpc[p] = "acquiring"
  /\ tscope[p] = s
  /\ tpc'[p] = "idle"
  /\ tret'.kind = "token"

\* The step is a call of switchTenant.
Switches == tops' = tops + 1 /\ tlastOp'.op = "switchTenant"

\* C17: whenever getToken returns a token, cached or just acquired, the
\* token has more than the refresh buffer left at that moment.
C17_ReturnedTokenFresh ==
  [][\A p \in TProcs : \A s \in Scopes :
       (ReturnsCached(p, s) \/ ReturnsAcquired(p, s))
         => tret'.token.expiresOnTimestamp - tnow' > REFRESH_BUFFER_MS]_vars

\* C18: getToken returns the cached token only if it has more than the
\* refresh buffer left; with an entry that has the buffer or less left it
\* calls the credential, and the token it gets replaces the scope's entry.
C18_ReuseOnlyWhenFresh ==
  [][\A p \in TProcs : \A s \in Scopes :
       /\ ReturnsCached(p, s)
            => /\ cache[s] # NoToken
               /\ cache[s].expiresOnTimestamp - tnow > REFRESH_BUFFER_MS
               /\ tret'.token = cache[s]
               /\ issued' = issued
               /\ cache' = cache
       /\ ( /\ Calls(p, s)
            /\ cache[s] # NoToken
            /\ cache[s].expiresOnTimestamp - tnow <= REFRESH_BUFFER_MS )
            => /\ tpc'[p] = "acquiring"
               /\ issued' = issued + 1
       /\ ReturnsAcquired(p, s)
            => /\ cache'[s] = tret'.token
               /\ tret'.token.token = tno[p]
               /\ \A o \in Scopes \ {s} : cache'[o] = cache[o]]_vars

C18_Witness ==
  \E p \in TProcs :
    /\ tpc[p] = "acquiring"
    /\ tlastOp = [op |-> "getToken", arg |-> tscope[p], by |-> p]
    /\ cache[tscope[p]] # NoToken
    /\ cache[tscope[p]].expiresOnTimestamp - tnow = REFRESH_BUFFER_MS
    /\ cache[tscope[p]].expiresOnTimestamp > tnow

\* C19: when the call of getToken(s) before this one acquired a token, no
\* switchTenant or clearCache came since, and that token still has more than
\* the refresh buffer left, this call makes no acquisition and returns the
\* same token.
C19_SecondCallSameToken ==
  [][\A p \in TProcs : \A s \in Scopes :
       ( /\ Calls(p, s)
         /\ tlast[s].acquired
         /\ tlast[s].ret # NoToken
         /\ tlast[s].ret.expiresOnTimestamp - tnow > REFRESH_BUFFER_MS )
         => /\ tpc'[p] = "idle"
            /\ issued' = issued
            /\ tret'.token.token = tlast[s].ret.token]_vars

\* C20: switchTenant installs the tenant and its credential and empties the
\* cache for every scope without calling the credential; and the first
\* getToken for a scope that was cached at the switch calls the credential.
C20_SwitchInvalidatesAll ==
  [][/\ Switches
          => /\ currentTenantId' = tlastOp'.arg
             /\ credential' = tlastOp'.arg
             /\ \A s \in Scopes : cache'[s] = NoToken
             /\ issued' = issued
             /\ tpc' = tpc
     /\ \A p \in TProcs : \A s \in Scopes :
          (Calls(p, s) /\ s \in tpending)
            => /\ tpc'[p] = "acquiring"
               /\ issued' = issued + 1]_vars

\* The step is a call of clearCache.
Clears == tops' = tops + 1 /\ tlastOp'.op = "clearCache"

\* C21: clearCache empties the cache for every scope, leaves the tenant and
\* the credential as they are and calls no credential; and a getToken that
\* is the first call after it calls the credential.
C21_ClearForcesAcquisition ==
  [][/\ Clears
          => /\ \A s \in Scopes : cache'[s] = NoToken
             /\ currentTenantId' = currentTenantId
             /\ credential' = credential
             /\ issued' = issued
     /\ \A p \in TProcs : \A s \in Scopes :
          (Calls(p, s) /\ tlastOp.op = "clearCache")
            => /\ tpc'[p] = "acquiring"
               /\ issued' = issued + 1]_vars

\* ------------------------------------- properties of auth_switch_tenant

\* The step is the end of the call in place p with a failure.
SwitchFailsAt(p) ==
  /\ spc[p] = "verifying"
  /\ spc'[p] = "idle"
  /\ slast'.kind = "failed"

\* C22: when a call of auth_switch_tenant that no other call of the tool
\* overlapped ends with a failure, the tenant and the credential are those
\* from before the call and the cache is empty.
C22_FailedSwitchRollsBack ==
  [][\A p \in SProcs :
       (SwitchFailsAt(p) /\ ~sover[p])
         => /\ currentTenantId' = sprev[p]
            /\ credential' = sprev[p]
            /\ \A s \in Scopes : cache'[s] = NoToken]_vars

C22_Witness ==
  /\ slast.kind = "failed"
  /\ ~slast.over
  /\ slast.moved
  /\ \A p \in SProcs : spc[p] = "idle"
  /\ \E p \in TProcs : tpc[p] = "acquiring"

\* ------------------------------------- more properties of the poller

\* C23: after a fetch that found the status Undefined pollOperation neither
\* returns nor reports a failure: it sleeps before the next fetch, or it has
\* timed out; and a call that has ended after fetching Undefined and no final
\* status ended with the timeout error.
C23_UndefinedNotTerminal ==
  /\ (AllFetched /\ fetched # <<>> /\ LastFetched.status = "Undefined") =>
       \/ ppc = "sleeping" /\ pout.via = "none"
       \/ /\ Polled
          /\ pout.via = "thrown"
          /\ pout.why = "timeout"
          /\ now - start > timeoutMs
  /\ (Polled /\ AllFetched
        /\ (\E j \in DOMAIN fetched : fetched[j].status = "Undefined")
        /\ \A k \in DOMAIN fetched : fetched[k].status \notin FinalStatuses) =>
       /\ pout.via = "thrown"
       /\ pout.error = TimeoutError

\* C23's case: Undefined was fetched, polling went on, Undefined came again
\* and the call timed out.
C23_Witness ==
  /\ Polled /\ AllFetched /\ Len(fetched) >= 2
  /\ \A k \in DOMAIN fetched : fetched[k].status = "Undefined"
  /\ pout.why = "timeout"

\* C28: a call that has ended made at least one status fetch; a final status
\* that a fetch returned decides the outcome whatever time has passed; the
\* timeout error is thrown only after a fetch that returned a status that is
\* not final, and only when more than timeoutMs has passed since the start;
\* with exactly timeoutMs passed the call sleeps and polls again.
C28_FetchBeforeTimeout ==
  /\ Polled => fetches >= 1
  /\ (Polled /\ AllFetched /\ LastFetched.status \in FinalStatuses) =>
       pout.why \in {"terminal", "failed"}
  /\ (Polled /\ pout.why = "timeout") =>
       /\ AllFetched
       /\ LastFetched.status \notin FinalStatuses
       /\ now - start > timeoutMs
  /\ ppc = "sleeping" => now - start <= timeoutMs

\* C28's case: the second fetch returned Succeeded after more than timeoutMs
\* and the call returned that state.
C28_Witness ==
  /\ Polled /\ AllFetched /\ fetches = 2
  /\ now - start > timeoutMs
  /\ LastFetched.status = "Succeeded"
  /\ pout.via = "returned"

\* C29: with a poll interval that moves the clock, every call of
\* pollOperation ends, whatever the status endpoint answers: it returns a
\* final state, throws the failure of a Failed status or the timeout error,
\* or lets through the error of a status request that failed.
C29_PollTerminates ==
  (ppc = "fetching" /\ pollInterval > 0)
    ~> (Polled /\ pout.why \in {"terminal", "failed", "timeout", "fetch"}
               /\ (pout.why # "fetch" => AllFetched))

\* C29's case: the status never became final and the call ended with the
\* timeout error.
C29_Witness ==
  /\ Polled /\ AllFetched /\ pollInterval > 0
  /\ \A k \in DOMAIN statusSeq : statusSeq[k].status \notin FinalStatuses
  /\ Len(fetched) > Len(statusSeq)
  /\ pout.why = "timeout"

\* ---------------------------------------- properties of concurrent calls

\* C24: calls of getToken for one scope are serialized around their
\* read-check-refresh-write, so no two acquisitions for the same scope are
\* ever in flight at once.
C24_OneAcquisitionPerScope ==
  \A p, q \in TProcs :
    (p # q /\ tpc[p] = "acquiring" /\ tpc[q] = "acquiring")
      => tscope[p] # tscope[q]

\* C25: once no call of auth_switch_tenant is in flight, and the last to end
\* had overlapped another, the tenant is the one of the last switch whose
\* verification succeeded, or the original tenant when none did.
C25_LastVerifiedSwitchWins ==
  ((\A p \in SProcs : spc[p] = "idle") /\ slast.over)
    => currentTenantId = sverified

\* C26: every token in the cache was handed out by the credential of the
\* tenant that is active now.
C26_CacheOnCurrentCredential ==
  \A s \in Scopes : cache[s] # NoToken => cache[s].credential = credential

\* ------------------------------------------ properties of the FabricClient

\* The call has ended on a response.
Answered == hpc = "done" /\ hresp # NoHttpResponse

\* C27: a call that ended on a response with a status outside 200..299 threw
\* a FabricApiError that carries the status, for 429 the rate limit error;
\* it did not return the response as a result.
C27_NonOkIsTypedError ==
  (Answered /\ ~ResponseOk(hresp.status)) =>
    /\ hout.via = "thrown"
    /\ hout.error.type = "FabricApiError"
    /\ hout.error.statusCode = hresp.status
    /\ hresp.status = 429 => hout.error.errorCode = "TooManyRequests"

\* ------------------------------------- more properties of the guard

\* The step is the end of place p's name read with an error.
ReadFailsAt(p) ==
  /\ pc[p] = "resolving"
  /\ pc'[p] = "done"
  /\ guard'[p] = "failed"

\* The step is a call of a guarded tool for workspace w, taking place p.
AssertsAt(p, w) ==
  /\ calls' = calls + 1
  /\ <<pc[p], tool[p], wid[p], guard[p]>>
       # <<pc'[p], tool'[p], wid'[p], guard'[p]>>
  /\ IsGuarded(tool'[p])
  /\ wid'[p] = w

\* C30: when the read of the workspace's name fails, the handler is given
\* the error and writes nothing, and afterwards no name is cached for that
\* workspace; and a guard that has patterns to test and no name cached for a
\* workspace issues the read (or fails getting a token for it).
C30_FailedReadNotCached ==
  [][/\ \A p \in Procs :
          ReadFailsAt(p)
            => /\ result'[p] = Err("ApiError")
               /\ ~wrote'[p]
               /\ writes' = writes
               /\ nameCache' = nameCache
               /\ wid[p] \notin DOMAIN nameCache'
     /\ \A p \in Procs : \A w \in Ids :
          ( /\ AssertsAt(p, w)
            /\ w \notin DOMAIN nameCache
            /\ ~allowAll
            /\ patterns # <<>> )
            => \/ pc'[p] = "resolving" /\ reads'[w] = reads[w] + 1
               \/ guard'[p] = "failed" /\ reads' = reads]_vars

====
